---- MODULE Spec2Model ----
(***************************************************************************)
(* A model of nmongo's incremental sync engine: RetryWithBackoff           *)
(* (internal/mongodb/retry.go), the sync-state helper                      *)
(* (internal/mongodb/incremental.go) and CopyCollection                    *)
(* (internal/mongodb/client.go).                                           *)
(***************************************************************************)
EXTENDS Integers, Sequences, FiniteSets, TLC

(***************************************************************************)
(* Bounds of the model.                                                    *)
(***************************************************************************)
MaxAttempts == 3

MaxTime == 2

\* The cluster faults injected into one copy.
MaxFaults == 1

(***************************************************************************)
(* Errors.  An error value records what the classifier of retry.go looks  *)
(* at: its dynamic type at the top of the chain (type), whether it is a    *)
(* fmt.Errorf("...%w") wrapper around that type (wrapped: a type assertion *)
(* err.(T) fails on a wrapper), the command error code, the per-document   *)
(* codes of a bulk write exception, whether the driver's                   *)
(* IsTimeout/IsNetworkError recognise it (drv), and whether its message    *)
(* contains one of the network patterns (netmsg).                          *)
(***************************************************************************)
Err(t, w, c, cs, d, m) ==
    [type |-> t, wrapped |-> w, code |-> c, codes |-> cs, drv |-> d, netmsg |-> m]

Nil == Err("nil", FALSE, 0, {}, "none", FALSE)

CommandError(c) == Err("cmd", FALSE, c, {}, "none", FALSE)

BulkWriteException(cs) == Err("bulk", FALSE, 0, cs, "none", FALSE)

GenericError == Err("generic", FALSE, 0, {}, "none", FALSE)

NetworkError == Err("generic", FALSE, 0, {}, "network", FALSE)

ConnectionRefused == Err("generic", FALSE, 0, {}, "none", TRUE)

\* ctx.Err(): context.Canceled, or context.DeadlineExceeded, which the
\* driver's IsTimeout recognises through any chain of wrappers.
CtxErr(st) == Err("ctx", FALSE, 0, {}, IF st = "deadline" THEN "timeout" ELSE "none", FALSE)

\* fmt.Errorf("...: %w", e): the message and the unwrap chain are kept, the
\* dynamic type is not.
Wrap(e) == [e EXCEPT !.wrapped = TRUE]

isTransientError(code) ==
    code \in {6, 7, 89, 91, 189, 262, 9001, 10107, 13435, 13436, 16500, 50}

isRetryableBulkWriteError(bulkErr) ==
    IF bulkErr.codes = {} THEN FALSE
    ELSE \A c \in bulkErr.codes : isTransientError(c)

isRetryableCommandError(cmdErr) ==
    CASE cmdErr.code = 112 -> TRUE
      [] cmdErr.code \in {11000, 11001} -> FALSE
      [] OTHER -> isTransientError(cmdErr.code)

isBasicRetryableError(err) ==
    \/ err.drv \in {"timeout", "network"}
    \/ err.netmsg

isRetryableError(err) ==
    IF err.type = "nil" THEN FALSE
    ELSE IF isBasicRetryableError(err) THEN TRUE
    ELSE IF err.type = "cmd" /\ ~err.wrapped THEN isRetryableCommandError(err)
    ELSE IF err.type = "bulk" /\ ~err.wrapped THEN isRetryableBulkWriteError(err)
    ELSE FALSE

(***************************************************************************)
(* What RetryWithBackoff returns: nil, or one of its four wrappers around  *)
(* the error that ended the loop.                                          *)
(***************************************************************************)
Ret(k, n, e) == [kind |-> k, attempts |-> n, cause |-> e]

RetNil == Ret("nil", 0, Nil)

\* errors.Is(ret, context.Canceled) or errors.Is(ret, context.DeadlineExceeded)
IsCancellation(ret) == ret.kind # "nil" /\ ret.cause.type = "ctx"

(***************************************************************************)
(* Documents and collections.  A collection maps _id to a document; a      *)
(* document is the value m of its last-modified field, which the writing   *)
(* application sets with every change of the content.  Times are positive; *)
(* 0 is the zero time.Time.                                                *)
(***************************************************************************)
\* The _ids in use, in the order a collection scan returns them.
IdSeq == <<1, 2>>

Ids == {IdSeq[k] : k \in 1..Len(IdSeq)}

NoDoc == [m |-> 0]

Doc(mtime) == [m |-> mtime]

EmptyColl == [i \in Ids |-> NoDoc]

Has(coll, i) == coll[i] # NoDoc

IdsOf(coll) == {i \in Ids : Has(coll, i)}

\* A document as the cursor yields it (bson.M with its _id).
CursorDoc(i, d) == [id |-> i, m |-> d.m]

Sides == {"source", "target"}

RECURSIVE Concat(_)
Concat(ss) == IF ss = <<>> THEN <<>> ELSE Head(ss) \o Concat(Tail(ss))

Last(s) == s[Len(s)]

VARIABLES
    \* RetryWithBackoff
    rPc,        \* "idle", "loop" (at the loop head), "wait" (in waitForRetry), "ret"
    rOp,        \* what fn does: "test" (a caller's closure), "find", "insert", "upsert"
    rCtx,       \* the context passed: "caller" or "background"
    attempts,   \* the attempts parameter
    attempt,    \* the loop variable
    lastErr,    \* the lastErr local
    rRet,       \* the returned error
    ctxState,   \* the caller's context: "active", "canceled", "deadline"
    fnLog,      \* history: the errors fn returned, in order of invocation
    sleeps,     \* history: the number of backoff waits entered
    timerFires, \* history: the number of backoff waits that ran to their end
    \* the two clusters
    source,     \* the source collection
    target,     \* the target collection
    meta,       \* nmongo_metadata.sync_state on each side: lastSyncTime of the
                \* collection's record, 0 when there is no record
    now,        \* the wall clock
    \* CopyCollection
    pc,         \* "idle", "prepare", "cursor", "read", "flushFull", "rest",
                \* "flushRest", "cursorErr", "indexes", "done"
    incremental, batchSize, retryAttempts, lastModifiedField,
    filter,     \* the query filter of prepareFilterWithTarget
    cursor,     \* the documents the open cursor has still to yield
    iterErr,    \* cursor.Err() != nil
    batch,      \* the batch buffer
    docCount,   \* the docCount local
    result,     \* "none" while running, "ok" for a nil return, else the error
                \* returned: RetryWithBackoff's "nonretryable" or "exhausted",
                \* "decode" (failed to decode document), "cursor" (cursor error),
                \* "prepare" (failed to prepare incremental filter)
    \* history of the running copy
    yielded,    \* the documents cursor.Next has yielded, in order
    flushed,    \* the batches insertBatch has returned nil for, in order
    cpWrites,   \* the number of sync-state upserts accepted
    cpRefused,  \* the sides whose metadata collection refuses the copy's
                \* sync-state upsert
    indexesRun, \* CopyCollectionIndexes has run
    metaAtStart, targetAtStart,  \* meta and target when the copy was called
    faults,     \* the number of cluster faults (network, decode, iteration)
                \* that have hit the copy
    \* direct calls of the helpers
    call,       \* the last direct call of a helper: its name, arguments
                \* and result
    \* overlapping runs on one collection
    syncState,  \* sync_state on each side in full: the lastSyncTime of each
                \* record of the collection's key, in insertion order
    upserts,    \* for each run, the upsert it has in flight on the server
    \* the dump of one collection (cmd/dump)
    dumpPc,     \* "idle", "dump" (in executeDumpWithRetry, before an
                \* attempt), "running" (mongodump is running), "state"
                \* (before updateCollectionState)
    dumpState,  \* state.Collections[collKey]
    dumpQuery,  \* the query of buildIncrementalQuery
    dumpStart   \* history: the clock when the last mongodump began to read

retryVars == <<rPc, rOp, rCtx, attempts, attempt, lastErr, rRet, ctxState,
               fnLog, sleeps, timerFires>>

dataVars == <<source, target, meta, now>>

paramVars == <<incremental, batchSize, retryAttempts, lastModifiedField>>

copyVars == <<pc, incremental, batchSize, retryAttempts, lastModifiedField,
              filter, cursor, iterErr, batch, docCount, result>>

histVars == <<yielded, flushed, cpWrites, cpRefused, indexesRun, metaAtStart,
              targetAtStart, faults>>

callVars == <<call>>

storeVars == <<syncState, upserts>>

dumpVars == <<dumpPc, dumpState, dumpQuery, dumpStart>>

vars == <<retryVars, dataVars, copyVars, histVars, callVars, storeVars, dumpVars>>

MaxRuns == 2

Runs == 1..MaxRuns

\* The run has no upsert in flight.
NoUpsert == [pc |-> "idle"]

\* No helper has been called directly.
NoCall == [fn |-> "none"]

\* The zero CollectionState, which a map without the key yields too.
NoState == [LastDumpTime |-> 0, DocumentCount |-> 0]

\* The empty query string: mongodump gets no --query.
NoQuery == [empty |-> TRUE, type |-> "none", gt |-> 0]

fnCalls == Len(fnLog)

\* bson.M{}: the filter that matches every document.
EmptyFilter == [empty |-> TRUE, gt |-> 0]

\* ctx.Err() != nil for the context the running call was given;
\* context.Background() is never done.
CtxDone == rCtx = "caller" /\ ctxState # "active"

(***************************************************************************)
(* The errors a caller's closure returns in the stand-alone runs           *)
(* (the closures of TestRetryWithBackoff and their neighbours).            *)
(***************************************************************************)
TestErrors ==
    { Nil, CommandError(189), CommandError(112), CommandError(11000),
      CommandError(8000), BulkWriteException({189}),
      BulkWriteException({189, 11000}), BulkWriteException({}),
      GenericError, ConnectionRefused, NetworkError }

Init ==
    /\ rPc = "idle"
    /\ rOp = "test"
    /\ rCtx = "caller"
    /\ attempts = 0
    /\ attempt = 1
    /\ lastErr = Nil
    /\ rRet = RetNil
    /\ ctxState = "active"
    /\ fnLog = <<>>
    /\ sleeps = 0
    /\ timerFires = 0
    /\ source = EmptyColl
    /\ target = EmptyColl
    /\ meta = [s \in Sides |-> 0]
    /\ now = 1
    /\ pc = "idle"
    /\ incremental = FALSE
    /\ batchSize = 1
    /\ retryAttempts = 1
    /\ lastModifiedField = ""
    /\ filter = EmptyFilter
    /\ cursor = <<>>
    /\ iterErr = FALSE
    /\ batch = <<>>
    /\ docCount = 0
    /\ result = "none"
    /\ yielded = <<>>
    /\ flushed = <<>>
    /\ cpWrites = 0
    /\ cpRefused = {}
    /\ indexesRun = FALSE
    /\ metaAtStart = [s \in Sides |-> 0]
    /\ targetAtStart = EmptyColl
    /\ faults = 0
    /\ call = NoCall
    /\ syncState = [s \in Sides |-> <<>>]
    /\ upserts = [r \in Runs |-> NoUpsert]
    /\ dumpPc = "idle"
    /\ dumpState = NoState
    /\ dumpQuery = NoQuery
    /\ dumpStart = 0

\* The entry of RetryWithBackoff: lastErr is nil, attempt := 1.
Enter(op, ctx, n) ==
    /\ rPc' = "loop"
    /\ rOp' = op
    /\ rCtx' = ctx
    /\ attempts' = n
    /\ attempt' = 1
    /\ lastErr' = Nil
    /\ rRet' = RetNil
    /\ fnLog' = <<>>
    /\ sleeps' = 0
    /\ timerFires' = 0

\* RetryWithBackoff has returned to its caller; its locals are gone.
Leave ==
    /\ rPc' = "idle"
    /\ rOp' = "test"
    /\ rCtx' = "caller"
    /\ attempts' = 0
    /\ attempt' = 1
    /\ lastErr' = Nil
    /\ rRet' = RetNil
    /\ fnLog' = <<>>
    /\ sleeps' = 0
    /\ timerFires' = 0

\* A caller outside the engine calls RetryWithBackoff with its own context,
\* which may already be canceled or past its deadline.
CallRetryWithBackoff ==
    /\ pc = "idle"
    /\ rPc \in {"idle", "ret"}
    /\ \E n \in 0..MaxAttempts : Enter("test", "caller", n)
    /\ ctxState' \in {"active", "canceled", "deadline"}
    /\ UNCHANGED <<dumpVars, storeVars, callVars, dataVars, copyVars, histVars>>

\* cancel() of the caller's context, or its deadline passing, at any moment.
Cancel ==
    /\ ctxState = "active"
    /\ rPc \in {"loop", "wait"}
    /\ rCtx = "caller"
    /\ ctxState' \in {"canceled", "deadline"}
    /\ UNCHANGED <<rPc, rOp, rCtx, attempts, attempt, lastErr, rRet, fnLog,
                   sleeps, timerFires>>
    /\ UNCHANGED <<dumpVars, storeVars, callVars, dataVars, copyVars, histVars>>

(***************************************************************************)
(* The driver calls the closures of client.go make.                        *)
(***************************************************************************)
Matches(d, f) == f.empty \/ d.m > f.gt

\* sourceColl.Find(ctx, filter): the matching documents, in _id order.
Find(coll, f) ==
    LET hit(i) == Has(coll, i) /\ Matches(coll[i], f)
        ids == SelectSeq(IdSeq, hit)
    IN [k \in 1..Len(ids) |-> CursorDoc(ids[k], coll[ids[k]])]

\* The first k documents of a batch, those the server applied before a fault.
Prefix(b, k) == SubSeq(b, 1, k)

InBatch(b, i) == \E k \in 1..Len(b) : b[k].id = i

\* The document of batch b with _id i (the last one, should there be more).
FromBatch(b, i) ==
    LET k == CHOOSE k \in 1..Len(b) :
                 b[k].id = i /\ \A j \in (k + 1)..Len(b) : b[j].id # i
    IN Doc(b[k].m)

\* InsertMany(batch), unordered: every document whose _id is free is
\* inserted, every other one is reported with a duplicate key error (11000).
InsertMany(coll, b) ==
    [i \in Ids |-> IF ~Has(coll, i) /\ InBatch(b, i) THEN FromBatch(b, i) ELSE coll[i]]

InsertManyErr(coll, b) ==
    IF \E k \in 1..Len(b) : Has(coll, b[k].id)
    THEN BulkWriteException({11000})
    ELSE Nil

\* docMap["_id"] is there. A document read from a collection always has
\* one; a document without one carries no id of Ids.
hasID(d) == d.id \in Ids

NewReplaceOneModel_noupsert(d) ==
    [filter |-> d.id, replacement |-> d, upsert |-> FALSE]

\* mongo.NewReplaceOneModel().SetFilter(bson.M{"_id": id})
\*     .SetReplacement(docMap).SetUpsert(true)
NewReplaceOneModel(d) ==
    [filter |-> d.id, replacement |-> d, upsert |-> TRUE]

\* prepareBulkOps: one ReplaceOne-with-upsert model per document that has an
\* _id, in the order of the batch; the others are skipped.
prepareBulkOps(b) ==
    LET withID == SelectSeq(b, hasID)
    IN [k \in 1..Len(withID) |-> NewReplaceOneModel(withID[k])]

BulkWrite_merge(coll, ops) ==
    [i \in Ids |->
       LET hits == {k \in 1..Len(ops) : ops[k].filter = i}
       IN IF hits = {} THEN coll[i]
          ELSE Doc(coll[i].m + ops[CHOOSE k \in hits : TRUE].replacement.m)]

\* BulkWrite(bulkOps), unordered: each model replaces the document its
\* filter matches, or inserts its replacement when it matches none and is an
\* upsert.
BulkWrite(coll, ops) ==
    [i \in Ids |->
       LET hits == {k \in 1..Len(ops) :
                      ops[k].filter = i /\ (Has(coll, i) \/ ops[k].upsert)}
       IN IF hits = {} THEN coll[i]
          ELSE Doc(ops[CHOOSE k \in hits : \A j \in hits : j <= k].replacement.m)]

insertBatch_upsert(inc) == "upsert"

\* insertBatch: plain insert, or upsert in incremental mode.
insertBatch(inc) == IF inc THEN "upsert" ELSE "insert"

\* fn() of the running RetryWithBackoff call returns err.
InvokeFn(err) ==
    \/ /\ rOp = "test"
       /\ err \in TestErrors
       /\ UNCHANGED <<target, cursor, faults>>
    \/ /\ rOp = "find"
       /\ \/ /\ err = Nil
             /\ cursor' = Find(source, filter)
             /\ UNCHANGED faults
          \/ /\ err \in {Wrap(NetworkError), Wrap(CommandError(189))}
             /\ faults < MaxFaults
             /\ faults' = faults + 1
             /\ UNCHANGED cursor
       /\ UNCHANGED target
    \/ /\ rOp = "insert"
       /\ \/ /\ err = InsertManyErr(target, batch)
             /\ target' = InsertMany(target, batch)
             /\ UNCHANGED faults
          \/ /\ err = NetworkError
             /\ faults < MaxFaults
             /\ \E k \in 0..Len(batch) : target' = InsertMany(target, Prefix(batch, k))
             /\ faults' = faults + 1
       /\ UNCHANGED cursor
    \/ /\ rOp = "upsert"
       /\ \/ /\ err = Nil
             /\ target' = BulkWrite(target, prepareBulkOps(batch))
             /\ UNCHANGED faults
          \/ /\ err = NetworkError
             /\ faults < MaxFaults
             /\ \E k \in 0..Len(batch) :
                  target' = BulkWrite(target, Prefix(prepareBulkOps(batch), k))
             /\ faults' = faults + 1
       /\ UNCHANGED cursor

FnErrors ==
    TestErrors \cup {Wrap(NetworkError), Wrap(CommandError(189)),
                     BulkWriteException({11000})}

executeRetryAttempt_nocheck(done, ctxErr, fnErr) ==
    [invoked |-> TRUE, err |-> fnErr]

\* executeRetryAttempt: the context is checked first, fn runs only if it is
\* not done.
executeRetryAttempt(done, ctxErr, fnErr) ==
    IF done THEN [invoked |-> FALSE, err |-> Wrap(ctxErr)]
    ELSE [invoked |-> TRUE, err |-> fnErr]

handleRetryError_short(err, att, maxAttempts) ==
    IF ~isRetryableError(err)
    THEN [shouldContinue |-> FALSE, retErr |-> Ret("nonretryable", 0, err)]
    ELSE IF att >= maxAttempts - 1
    THEN [shouldContinue |-> FALSE, retErr |-> RetNil]
    ELSE [shouldContinue |-> TRUE, retErr |-> RetNil]

handleRetryError_always(err, att, maxAttempts) ==
    IF att = maxAttempts
    THEN [shouldContinue |-> FALSE, retErr |-> RetNil]
    ELSE [shouldContinue |-> TRUE, retErr |-> RetNil]

\* handleRetryError: (shouldContinue, retErr).
handleRetryError(err, att, maxAttempts) ==
    IF ~isRetryableError(err)
    THEN [shouldContinue |-> FALSE, retErr |-> Ret("nonretryable", 0, err)]
    ELSE IF att = maxAttempts
    THEN [shouldContinue |-> FALSE, retErr |-> RetNil]
    ELSE [shouldContinue |-> TRUE, retErr |-> RetNil]

loopBody_nostop(err, att, maxAttempts) ==
    LET h == handleRetryError(err, att, maxAttempts)
    IN IF h.retErr # RetNil THEN [to |-> "ret", ret |-> h.retErr]
       ELSE IF ~h.shouldContinue
       THEN [to |-> "ret", ret |-> Ret("exhausted", maxAttempts, err)]
       ELSE [to |-> "wait", ret |-> RetNil]

\* The body of the loop of RetryWithBackoff after the attempt returned err:
\* return nil, return handleRetryError's error, leave the loop for the
\* "failed after N attempts" return, or go on to waitForRetry.
loopBody(err, att, maxAttempts) ==
    IF err = Nil THEN [to |-> "ret", ret |-> RetNil]
    ELSE LET h == handleRetryError(err, att, maxAttempts)
         IN IF h.retErr # RetNil THEN [to |-> "ret", ret |-> h.retErr]
            ELSE IF ~h.shouldContinue
            THEN [to |-> "ret", ret |-> Ret("exhausted", maxAttempts, err)]
            ELSE [to |-> "wait", ret |-> RetNil]

loopTest_once(att, maxAttempts) == att = 1 \/ att <= maxAttempts

\* The test of the loop of RetryWithBackoff: attempt <= attempts.
loopTest(att, maxAttempts) == att <= maxAttempts

\* One pass of the loop of RetryWithBackoff, up to the wait: the loop test,
\* executeRetryAttempt, the loop body, and the return after the loop.
RetryWithBackoff ==
    /\ rPc = "loop"
    /\ IF ~loopTest(attempt, attempts)
       THEN /\ rPc' = "ret"
            /\ rRet' = Ret("exhausted", attempts, lastErr)
            /\ UNCHANGED <<lastErr, fnLog, sleeps, target, cursor, faults>>
       ELSE \E fnErr \in FnErrors :
              LET r == executeRetryAttempt(CtxDone, CtxErr(ctxState), fnErr)
                  b == loopBody(r.err, attempt, attempts)
              IN /\ IF r.invoked
                    THEN InvokeFn(fnErr) /\ fnLog' = Append(fnLog, fnErr)
                    ELSE /\ fnErr = Nil
                         /\ UNCHANGED <<fnLog, target, cursor, faults>>
                 /\ lastErr' = IF r.err = Nil THEN lastErr ELSE r.err
                 /\ rPc' = b.to
                 /\ rRet' = b.ret
                 /\ sleeps' = IF b.to = "wait" THEN sleeps + 1 ELSE sleeps
    /\ UNCHANGED <<rOp, rCtx, attempts, attempt, ctxState, timerFires>>
    /\ UNCHANGED <<dumpVars, storeVars, callVars, source, meta, now, pc, paramVars, filter, iterErr, batch,
                   docCount, result>>
    /\ UNCHANGED <<yielded, flushed, cpWrites, cpRefused, indexesRun, metaAtStart, targetAtStart>>

waitForRetry_deaf ==
    /\ rPc = "wait"
    /\ rPc' = "loop"
    /\ attempt' = attempt + 1
    /\ timerFires' = timerFires + 1
    /\ UNCHANGED <<rOp, rCtx, attempts, lastErr, rRet, ctxState, fnLog, sleeps>>
    /\ UNCHANGED <<dumpVars, storeVars, callVars, dataVars, copyVars, histVars>>

\* waitForRetry: the select returns on ctx.Done() as soon as the context is
\* done, else when the timer of calculateBackoff(attempt) fires; the loop
\* then increments attempt.
waitForRetry ==
    /\ rPc = "wait"
    /\ IF CtxDone
       THEN /\ rPc' = "ret"
            /\ rRet' = Ret("canceledBackoff", 0, CtxErr(ctxState))
            /\ UNCHANGED <<attempt, timerFires>>
       ELSE /\ rPc' = "loop"
            /\ attempt' = attempt + 1
            /\ timerFires' = timerFires + 1
            /\ UNCHANGED rRet
    /\ UNCHANGED <<rOp, rCtx, attempts, lastErr, ctxState, fnLog, sleeps>>
    /\ UNCHANGED <<dumpVars, storeVars, callVars, dataVars, copyVars, histVars>>

NextRetry ==
    \/ CallRetryWithBackoff
    \/ Cancel
    \/ RetryWithBackoff
    \/ waitForRetry

SpecRetry == Init /\ [][NextRetry]_vars


(***************************************************************************)
(* The sync-state helper (incremental.go).  fail[side] says whether the    *)
(* call's request to that side's metadata collection fails.                *)
(***************************************************************************)
Faults == [Sides -> BOOLEAN]

\* The side a helper asks first.
Preferred(useTarget) == IF useTarget THEN "target" ELSE "source"

\* What GetLastSyncTime returns: the time, whether the error is non-nil, and
\* (history) the sides whose metadata collection it has queried, in order.
SyncTime(t, e, rs) == [time |-> t, err |-> e, reads |-> rs]

GetLastSyncTime_propagate(useTarget, m, fail) ==
    LET ofTarget == IF fail["target"] THEN SyncTime(0, TRUE, <<"target">>)
                    ELSE SyncTime(m["target"], FALSE, <<"target">>)
    IN IF useTarget THEN ofTarget
       ELSE IF fail["source"]
            THEN [ofTarget EXCEPT !.reads = <<"source">> \o ofTarget.reads]
       ELSE SyncTime(m["source"], FALSE, <<"source">>)

GetLastSyncTime_eager(useTarget, m, fail) ==
    LET ofTarget == IF fail["target"] THEN SyncTime(0, FALSE, <<"target">>)
                    ELSE SyncTime(m["target"], FALSE, <<"target">>)
    IN IF useTarget THEN ofTarget
       ELSE IF fail["source"] \/ m["source"] = 0
            THEN [ofTarget EXCEPT !.reads = <<"source">> \o ofTarget.reads]
       ELSE SyncTime(m["source"], FALSE, <<"source">>)

\* GetLastSyncTime: the record of the preferred side, the zero time when it
\* has none (mongo.ErrNoDocuments); on any other failure of the read the
\* zero time if the preferred side is the target, else the answer of a
\* helper that prefers the target.  The error returned is nil on every path.
GetLastSyncTime(useTarget, m, fail) ==
    LET ofTarget == IF fail["target"] THEN SyncTime(0, FALSE, <<"target">>)
                    ELSE SyncTime(m["target"], FALSE, <<"target">>)
    IN IF useTarget THEN ofTarget
       ELSE IF fail["source"]
            THEN [ofTarget EXCEPT !.reads = <<"source">> \o ofTarget.reads]
       ELSE SyncTime(m["source"], FALSE, <<"source">>)

\* What UpdateLastSyncTime has done: the metadata after it, whether it
\* returned nil, and (history) the sides it sent the upsert to, in order.
Updated(m, o, ws) == [meta |-> m, ok |-> o, writes |-> ws]

UpdateLastSyncTime_both(useTarget, m, fail, t) ==
    LET onTarget == IF fail["target"] THEN Updated(m, FALSE, <<"target">>)
                    ELSE Updated([m EXCEPT !["target"] = t], TRUE, <<"target">>)
    IN IF useTarget THEN onTarget
       ELSE IF fail["source"]
            THEN [onTarget EXCEPT !.writes = <<"source">> \o onTarget.writes]
       ELSE Updated([s \in Sides |-> IF fail[s] THEN m[s] ELSE t], TRUE,
                    <<"source", "target">>)

\* UpdateLastSyncTime: upsert lastSyncTime = time.Now() on the preferred
\* side; on failure return the error if that side is the target, else try
\* the target.
UpdateLastSyncTime(useTarget, m, fail, t) ==
    LET onTarget == IF fail["target"] THEN Updated(m, FALSE, <<"target">>)
                    ELSE Updated([m EXCEPT !["target"] = t], TRUE, <<"target">>)
    IN IF useTarget THEN onTarget
       ELSE IF fail["source"]
            THEN [onTarget EXCEPT !.writes = <<"source">> \o onTarget.writes]
       ELSE Updated([m EXCEPT !["source"] = t], TRUE, <<"source">>)

PrepareIncrementalFilter_late(lastSyncTime, field) ==
    IF lastSyncTime = 0 THEN EmptyFilter
    ELSE IF field # "" THEN [empty |-> FALSE, gt |-> lastSyncTime + 1]
    ELSE EmptyFilter

PrepareIncrementalFilter_gte(lastSyncTime, field) ==
    IF lastSyncTime = 0 THEN EmptyFilter
    ELSE IF field # "" THEN [empty |-> FALSE, gt |-> lastSyncTime - 1]
    ELSE EmptyFilter

\* PrepareIncrementalFilter, after its GetLastSyncTime: bson.M{} for a zero
\* lastSyncTime or an empty field name, else {field: {$gt: lastSyncTime}}.
PrepareIncrementalFilter(lastSyncTime, field) ==
    IF lastSyncTime = 0 THEN EmptyFilter
    ELSE IF field # "" THEN [empty |-> FALSE, gt |-> lastSyncTime]
    ELSE EmptyFilter

\* prepareFilterWithTarget: bson.M{} when not incremental; else the filter of
\* a helper with useTarget = true, and, deferred to this function's own
\* return, UpdateLastSyncTime, whose error is only printed.  An error of
\* PrepareIncrementalFilter is returned before the deferred call is set up.
prepareFilterWithTarget(inc, field, m, failRead, failWrite, t) ==
    IF ~inc THEN [filter |-> EmptyFilter, meta |-> m, wrote |-> FALSE, err |-> FALSE]
    ELSE LET g == GetLastSyncTime(TRUE, m, failRead)
             f == PrepareIncrementalFilter(g.time, field)
             u == UpdateLastSyncTime(TRUE, m, failWrite, t)
         IN IF g.err
            THEN [filter |-> EmptyFilter, meta |-> m, wrote |-> FALSE, err |-> TRUE]
            ELSE [filter |-> f, meta |-> u.meta, wrote |-> u.ok, err |-> FALSE]

(***************************************************************************)
(* CopyCollection (client.go).  Every driver call runs on                  *)
(* opCtx = context.Background(), not on the caller's context.              *)
(***************************************************************************)
BatchSizes == {1, 2}

RetryAttemptsChoices == {0, 1, 2}

FieldNames == {"", "lastModified"}

CursorAttempts == 5

\* A request to the target's metadata collection that fails or not.
TargetFault(b) == [s \in Sides |-> s = "target" /\ b]

\* CopyCollection up to its call of createCursor: prepareFilterWithTarget,
\* then createCursor enters RetryWithBackoff(ctx, 5, ...).
CopyCollection ==
    /\ pc = "idle"
    /\ rPc = "idle"
    /\ \E inc \in BOOLEAN, bs \in BatchSizes, ra \in RetryAttemptsChoices,
          field \in FieldNames, failRead \in BOOLEAN, failWrite \in Faults :
         LET p == prepareFilterWithTarget(inc, field, meta, TargetFault(failRead),
                                          failWrite, now)
         IN /\ incremental' = inc
            /\ batchSize' = bs
            /\ retryAttempts' = ra
            /\ lastModifiedField' = field
            /\ filter' = p.filter
            /\ meta' = p.meta
            /\ cpWrites' = IF p.wrote THEN 1 ELSE 0
            /\ cpRefused' = IF inc THEN {s \in Sides : failWrite[s]} ELSE {}
            /\ IF p.err
               THEN /\ pc' = "done"
                    /\ result' = "prepare"
                    /\ UNCHANGED <<rPc, rOp, rCtx, attempts, attempt, lastErr,
                                   rRet, fnLog, sleeps, timerFires>>
               ELSE /\ pc' = "cursor"
                    /\ Enter("find", "background", CursorAttempts)
                    /\ UNCHANGED result
    /\ metaAtStart' = meta
    /\ targetAtStart' = target
    /\ UNCHANGED <<dumpVars, storeVars, callVars, source, target, now, ctxState>>
    /\ UNCHANGED <<cursor, iterErr, batch, docCount>>
    /\ UNCHANGED <<yielded, flushed, indexesRun, faults>>

\* CopyCollection has returned; its locals are gone.
Return ==
    /\ pc = "done"
    /\ pc' = "idle"
    /\ UNCHANGED retryVars
    /\ incremental' = FALSE
    /\ batchSize' = 1
    /\ retryAttempts' = 1
    /\ lastModifiedField' = ""
    /\ filter' = EmptyFilter
    /\ cursor' = <<>>
    /\ iterErr' = FALSE
    /\ batch' = <<>>
    /\ docCount' = 0
    /\ result' = "none"
    /\ yielded' = <<>>
    /\ flushed' = <<>>
    /\ cpWrites' = 0
    /\ cpRefused' = {}
    /\ indexesRun' = FALSE
    /\ metaAtStart' = [s \in Sides |-> 0]
    /\ targetAtStart' = EmptyColl
    /\ faults' = 0
    /\ UNCHANGED <<dumpVars, storeVars, callVars, dataVars>>

\* createCursor returns: CopyCollection returns its error, or goes on to
\* processBatches.
createCursor ==
    /\ pc = "cursor"
    /\ rPc = "ret"
    /\ Leave
    /\ IF rRet # RetNil
       THEN result' = rRet.kind /\ pc' = "done"
       ELSE result' = result /\ pc' = "read"
    /\ UNCHANGED ctxState
    /\ UNCHANGED <<dumpVars, storeVars, callVars, dataVars, paramVars, filter, cursor, iterErr, batch, docCount>>
    /\ UNCHANGED histVars

batchFull_gt(b, n) == Len(b) > n

\* The test of readAndProcessDocuments after the append:
\* len(*batch) >= batchSize.
batchFull(b, n) == Len(b) >= n

\* One pass of the loop of readAndProcessDocuments: cursor.Next, which ends
\* the loop at the end of the cursor or on an iteration error; Decode;
\* append; insertBatch when the batch is full.
readAndProcessDocuments ==
    /\ pc = "read"
    /\ \/ /\ cursor = <<>>
          /\ pc' = "rest"
          /\ UNCHANGED <<dumpVars, storeVars, callVars, retryVars, cursor, iterErr, batch, result, yielded, faults>>
       \/ /\ faults < MaxFaults
          /\ iterErr' = TRUE
          /\ faults' = faults + 1
          /\ pc' = "rest"
          /\ UNCHANGED <<dumpVars, storeVars, callVars, retryVars, cursor, batch, result, yielded>>
       \/ /\ cursor # <<>>
          /\ cursor' = Tail(cursor)
          /\ yielded' = Append(yielded, Head(cursor))
          /\ \/ /\ faults < MaxFaults
                /\ result' = "decode"
                /\ pc' = "done"
                /\ faults' = faults + 1
                /\ UNCHANGED <<dumpVars, storeVars, callVars, retryVars, batch>>
             \/ /\ batch' = Append(batch, Head(cursor))
                /\ IF batchFull(batch', batchSize)
                   THEN /\ Enter(insertBatch(incremental), "background", retryAttempts)
                        /\ pc' = "flushFull"
                        /\ UNCHANGED ctxState
                   ELSE /\ pc' = "read"
                        /\ UNCHANGED retryVars
                /\ UNCHANGED <<result, faults>>
          /\ UNCHANGED iterErr
    /\ UNCHANGED <<dumpVars, storeVars, callVars, dataVars, paramVars, filter, docCount>>
    /\ UNCHANGED <<flushed, cpWrites, cpRefused, indexesRun, metaAtStart, targetAtStart>>

afterFlush_keep(b, n) == [batch |-> b, docCount |-> n + Len(b)]

\* readAndProcessDocuments after a flush that returned nil: count the batch
\* and clear it.
afterFlush(b, n) == [batch |-> <<>>, docCount |-> n + Len(b)]

\* insertBatch returns to the loop of readAndProcessDocuments.
FlushFullReturns ==
    /\ pc = "flushFull"
    /\ rPc = "ret"
    /\ Leave
    /\ IF rRet # RetNil
       THEN /\ result' = rRet.kind
            /\ pc' = "done"
            /\ UNCHANGED <<batch, docCount, flushed>>
       ELSE /\ batch' = afterFlush(batch, docCount).batch
            /\ docCount' = afterFlush(batch, docCount).docCount
            /\ flushed' = Append(flushed, batch)
            /\ pc' = "read"
            /\ UNCHANGED result
    /\ UNCHANGED ctxState
    /\ UNCHANGED <<dumpVars, storeVars, callVars, dataVars, paramVars, filter, cursor, iterErr>>
    /\ UNCHANGED <<yielded, cpWrites, cpRefused, indexesRun, metaAtStart, targetAtStart, faults>>

CursorErrCheck_ignore == result' = result /\ pc' = "indexes"

\* processBatches after handleRemainingDocuments: cursor.Err().
CursorErrCheck ==
    IF iterErr
    THEN result' = "cursor" /\ pc' = "done"
    ELSE result' = result /\ pc' = "indexes"

\* handleRemainingDocuments: insertBatch if the batch is not empty.
handleRemainingDocuments ==
    /\ pc = "rest"
    /\ IF Len(batch) > 0
       THEN /\ Enter(insertBatch(incremental), "background", retryAttempts)
            /\ pc' = "flushRest"
            /\ UNCHANGED <<ctxState, result>>
       ELSE /\ CursorErrCheck
            /\ UNCHANGED retryVars
    /\ UNCHANGED <<dumpVars, storeVars, callVars, dataVars, paramVars, filter, cursor, iterErr, batch, docCount>>
    /\ UNCHANGED histVars

\* insertBatch returns to handleRemainingDocuments, which counts the batch;
\* processBatches then tests cursor.Err().
FlushRestReturns ==
    /\ pc = "flushRest"
    /\ rPc = "ret"
    /\ Leave
    /\ IF rRet # RetNil
       THEN /\ result' = rRet.kind
            /\ pc' = "done"
            /\ UNCHANGED <<docCount, flushed>>
       ELSE /\ docCount' = docCount + Len(batch)
            /\ flushed' = Append(flushed, batch)
            /\ CursorErrCheck
    /\ UNCHANGED ctxState
    /\ UNCHANGED <<dumpVars, storeVars, callVars, dataVars, paramVars, filter, cursor, iterErr, batch>>
    /\ UNCHANGED <<yielded, cpWrites, cpRefused, indexesRun, metaAtStart, targetAtStart, faults>>

\* CopyCollection after CopyCollectionIndexes: an error is printed as a
\* warning and nil is returned.
afterIndexes(err) == "ok"

\* CopyCollectionIndexes, whose error is only printed; CopyCollection
\* returns nil.
CopyCollectionIndexes ==
    /\ pc = "indexes"
    /\ indexesRun' = TRUE
    /\ \E err \in BOOLEAN : result' = afterIndexes(err)
    /\ pc' = "done"
    /\ UNCHANGED <<dumpVars, storeVars, callVars, retryVars, dataVars, paramVars, filter, cursor, iterErr, batch, docCount>>
    /\ UNCHANGED <<yielded, flushed, cpWrites, cpRefused, metaAtStart, targetAtStart, faults>>

(***************************************************************************)
(* The applications writing to the source cluster between two copies, and  *)
(* the clock.                                                              *)
(***************************************************************************)
InsertDoc ==
    /\ pc = "idle"
    /\ \E i \in Ids, t \in 1..now :
         /\ ~Has(source, i)
         /\ source' = [source EXCEPT ![i] = Doc(t)]
    /\ UNCHANGED <<dumpVars, storeVars, callVars, retryVars, target, meta, now, copyVars, histVars>>

UpdateDoc ==
    /\ pc = "idle"
    /\ \E i \in Ids, t \in 1..now :
         /\ Has(source, i)
         /\ source[i].m # t
         /\ source' = [source EXCEPT ![i] = Doc(t)]
    /\ UNCHANGED <<dumpVars, storeVars, callVars, retryVars, target, meta, now, copyVars, histVars>>

Tick ==
    /\ pc = "idle"
    /\ now < MaxTime
    /\ now' = now + 1
    /\ UNCHANGED <<dumpVars, storeVars, callVars, retryVars, source, target, meta, copyVars, histVars>>

Next ==
    \/ CopyCollection
    \/ RetryWithBackoff
    \/ waitForRetry
    \/ createCursor
    \/ readAndProcessDocuments
    \/ FlushFullReturns
    \/ handleRemainingDocuments
    \/ FlushRestReturns
    \/ CopyCollectionIndexes
    \/ Return
    \/ InsertDoc
    \/ UpdateDoc
    \/ Tick

Spec == Init /\ [][Next]_vars

(***************************************************************************)
(* Properties of CopyCollection, checked under Spec.                       *)
(***************************************************************************)
Failed == result \notin {"none", "ok"}

\* C1: in an incremental copy the checkpoint is written only once every
\* matching document has been flushed to the target and index replication
\* has run, never before the first source document is read.
C1_CheckpointWrittenLast ==
    (incremental /\ cpWrites > 0)
       => /\ indexesRun
          /\ cursor = <<>>
          /\ yielded = Find(source, filter)
          /\ Concat(flushed) = yielded

\* C2: if an incremental copy fails, the stored checkpoint is the one
\* stored before the copy started.
C2_FailedCopyKeepsCheckpoint ==
    (pc = "done" /\ incremental /\ Failed) => meta = metaAtStart

\* C3: a successful incremental copy leaves every source document whose
\* last-modified value is later than the checkpoint stored when the copy
\* started in the target with its current source content; no document the
\* target held before is lost, and the target holds the documents it held
\* plus the documents selected, one per _id.
C3_IncrementalMonotonicity ==
    (pc = "done" /\ incremental /\ result = "ok")
       => /\ \A i \in Ids :
               (Has(source, i) /\ source[i].m > metaAtStart["target"])
                  => target[i] = source[i]
          /\ \A i \in Ids : Has(targetAtStart, i) => Has(target, i)
          /\ IdsOf(target) =
               IdsOf(targetAtStart)
                  \cup {i \in Ids : Has(source, i) /\ Matches(source[i], filter)}

C3_Witness ==
    /\ pc = "done" /\ incremental /\ result = "ok"
    /\ metaAtStart["target"] > 0
    /\ ~filter.empty
    /\ \E i \in Ids :
         /\ Has(targetAtStart, i)
         /\ source[i].m > metaAtStart["target"]
         /\ targetAtStart[i] # source[i]
         /\ target[i] = source[i]
    /\ \E i \in Ids :
         /\ ~Has(targetAtStart, i)
         /\ source[i].m > metaAtStart["target"]
         /\ target[i] = source[i]

\* The target held, when the copy was called, a document of the source.
Overlap == \E i \in Ids : Has(source, i) /\ Has(targetAtStart, i)

C5_CountAndBatchesMatchCursor ==
    (pc = "done" /\ result = "ok")
       => /\ docCount = Len(yielded)
          /\ yielded = Find(source, filter)
          /\ Concat(flushed) = yielded
          /\ \A k \in 1..Len(yielded) : target[yielded[k].id] = Doc(yielded[k].m)

C5_Witness ==
    /\ pc = "done" /\ result = "ok"
    /\ Len(flushed) = 2
    /\ docCount = 2
    /\ yielded[1].id # yielded[2].id


(***************************************************************************)
(* Properties of RetryWithBackoff, checked under SpecRetry.                *)
(***************************************************************************)
AllRetryable(log) == \A i \in 1..Len(log) : isRetryableError(log[i])

\* C6: with attempts >= 1 and a context that is never canceled, if every
\* invocation of fn failed with a retryable error then, when the call
\* returns, fn was invoked exactly attempts times and the error is the
\* "failed after N attempts" one, naming attempts and wrapping the last
\* error; and fn is never invoked more than attempts times.
C6_ExhaustedAfterMaxAttempts ==
    /\ rPc # "idle" => fnCalls <= attempts
    /\ (rPc = "ret" /\ attempts >= 1 /\ ctxState = "active" /\ AllRetryable(fnLog))
          => /\ fnCalls = attempts
             /\ rRet = Ret("exhausted", attempts, fnLog[attempts])

C6_Witness ==
    /\ rPc = "ret" /\ rOp = "test" /\ attempts = MaxAttempts /\ ctxState = "active"
    /\ AllRetryable(fnLog)
    /\ rRet.kind = "exhausted"
    /\ sleeps = MaxAttempts - 1

\* C7: once fn has succeeded, at its k-th invocation, the call has returned
\* nil: k <= attempts, the k-1 earlier invocations failed with retryable
\* errors, exactly k-1 backoff waits were entered and ran to their end, and
\* nothing was invoked after the success.
C7_SuccessEndsLoop ==
    (fnLog # <<>> /\ \E i \in 1..Len(fnLog) : fnLog[i] = Nil)
       => /\ Last(fnLog) = Nil
          /\ AllRetryable(SubSeq(fnLog, 1, Len(fnLog) - 1))
          /\ rPc = "ret"
          /\ rRet = RetNil
          /\ fnCalls <= attempts
          /\ sleeps = fnCalls - 1
          /\ timerFires = fnCalls - 1

C7_Witness ==
    /\ rPc = "ret" /\ rOp = "test" /\ rRet = RetNil
    /\ fnCalls = MaxAttempts
    /\ sleeps = MaxAttempts - 1

\* C8: once fn has failed with a non-retryable error the call has returned
\* the "non-retryable" error wrapping that cause, with no backoff wait after
\* the failure and no later invocation of fn, whatever attempts remain.
C8_NonRetryableReturnsAtOnce ==
    \A i \in 1..Len(fnLog) :
       (fnLog[i] # Nil /\ ~isRetryableError(fnLog[i]))
          => /\ i = Len(fnLog)
             /\ rPc = "ret"
             /\ rRet = Ret("nonretryable", 0, fnLog[i])
             /\ sleeps = i - 1

C8_Witness ==
    /\ rPc = "ret" /\ rOp = "test" /\ rRet.kind = "nonretryable"
    /\ rRet.cause = CommandError(11000)
    /\ fnCalls = 2
    /\ attempts = MaxAttempts

\* C9: when the context is already done as an attempt is about to start, the
\* step does not invoke fn, and the call can only end with an error that
\* wraps the context's error; a call whose context was done from the start
\* never invokes fn.
C9_NoAttemptOnceCanceled ==
    [][(rPc = "loop" /\ attempt <= attempts /\ CtxDone)
          => /\ fnLog' = fnLog
             /\ rPc' \in {"wait", "ret"}
             /\ rPc' = "ret" => IsCancellation(rRet')]_vars

C9_Witness ==
    /\ rPc = "ret" /\ rOp = "test" /\ attempts >= 1
    /\ fnCalls = 0
    /\ IsCancellation(rRet)

\* C10: a call waiting in its backoff sleep with its context done returns
\* the "context canceled during retry backoff" error as its next step: the
\* timer is not waited out and fn is not invoked again.
C10_SleepIsCancellable ==
    [][(rPc = "wait" /\ CtxDone)
          => /\ rPc' = "ret"
             /\ rRet' = Ret("canceledBackoff", 0, CtxErr(ctxState))
             /\ fnLog' = fnLog
             /\ timerFires' = timerFires]_vars

C10_Witness ==
    /\ rPc = "ret" /\ rOp = "test"
    /\ rRet.kind = "canceledBackoff"
    /\ fnCalls >= 1
    /\ fnCalls < attempts
    /\ timerFires = fnCalls - 1

(***************************************************************************)
(* Direct calls of isRetryableError (TestIsRetryableError,                 *)
(* TestBulkWriteExceptionRetry).  Error() of a command error holds the     *)
(* server's message and Error() of a bulk write exception the messages of  *)
(* its write errors, so either may contain one of the network patterns     *)
(* isBasicRetryableError searches for (a duplicate-key message quotes the  *)
(* key value, and the search for "EOF" is case-sensitive substring search);*)
(* a server error may also carry the driver's NetworkError label.          *)
(***************************************************************************)
WithMessage(e, m) == [e EXCEPT !.netmsg = m]

WithLabel(e, d) == [e EXCEPT !.drv = d]

TransientCodes == {6, 7, 50, 89, 91, 189, 262, 9001, 10107, 13435, 13436, 16500}

\* The codes the calls use: the transient codes, write conflict, duplicate
\* key, and two codes the classifier does not know.
CommandCodes == TransientCodes \cup {112, 11000, 11001, 8000, 99999}

WriteErrorCodes == {189, 91, 112, 11000}

CommandErrors ==
    { WithLabel(WithMessage(CommandError(c), m), d) :
        c \in CommandCodes, m \in BOOLEAN, d \in {"none", "network"} }

BulkWriteExceptions ==
    { WithMessage(BulkWriteException(cs), m) :
        cs \in SUBSET WriteErrorCodes, m \in BOOLEAN }

ErrorInputs ==
    LET plain == {Nil, GenericError, NetworkError, ConnectionRefused,
                  CtxErr("canceled"), CtxErr("deadline")}
                 \cup CommandErrors \cup BulkWriteExceptions
    IN plain \cup {Wrap(e) : e \in plain \ {Nil}}

CallIsRetryableError ==
    /\ \E err \in ErrorInputs :
         call' = [fn |-> "isRetryableError", err |-> err,
                  out |-> isRetryableError(err)]
    /\ UNCHANGED <<dumpVars, storeVars, retryVars, dataVars, copyVars, histVars>>

NextClassify == CallIsRetryableError

SpecClassify == Init /\ [][NextClassify]_vars

Classified == call.fn = "isRetryableError"

\* C11: a bulk write exception is retryable if and only if it carries at
\* least one per-document error and every per-document error code is a
\* transient code.
C11_BulkRetryableIffAllTransient ==
    (Classified /\ call.err.type = "bulk" /\ ~call.err.wrapped)
       => (call.out <=> /\ call.err.codes # {}
                        /\ call.err.codes \subseteq TransientCodes)

\* C12: a command error, whatever its message text, is retryable if and
\* only if its code is 112 or a transient code; nil is not retryable, and
\* neither is a generic error with no network or timeout shape.
C12_CommandRetryableIffListedCode ==
    /\ (Classified /\ call.err.type = "cmd" /\ ~call.err.wrapped
           /\ call.err.drv = "none")
          => (call.out <=> call.err.code \in TransientCodes \cup {112})
    /\ (Classified /\ call.err.type = "nil") => ~call.out
    /\ (Classified /\ call.err.type = "generic" /\ call.err.drv = "none"
           /\ ~call.err.netmsg)
          => ~call.out

(***************************************************************************)
(* calculateBackoff (retry.go).  time.Duration is an int64 count of        *)
(* nanoseconds; the values exceed the model checker's integers, so an      *)
(* int64 is its eight bytes in two's complement, least significant first,  *)
(* and the arithmetic is Go's: shifts and products wrap modulo 2^64.       *)
(***************************************************************************)
MaxBackoffAttempt == 66

\* The values of time.Now().UnixNano() % 1000 the calls see.
NanoSamples == {0, 500, 999}

Int64Bytes == 8

\* The int64 of a natural number below 2^31.
Int64(n) ==
    [i \in 1..Int64Bytes |-> IF i <= 4 THEN (n \div (256 ^ (i - 1))) % 256 ELSE 0]

\* 1 << k for an unsigned shift count: 0 when k >= 64.
Shl1(k) ==
    [i \in 1..Int64Bytes |-> IF k < 64 /\ i = (k \div 8) + 1 THEN 2 ^ (k % 8) ELSE 0]

IsNeg(a) == a[Int64Bytes] >= 128

\* The sum of the byte products that fall on byte p of a * b.
RECURSIVE Column(_, _, _, _)
Column(a, b, p, i) ==
    IF i > p THEN 0
    ELSE (IF i <= Len(a) /\ p - i + 1 <= Len(b) THEN a[i] * b[p - i + 1] ELSE 0)
         + Column(a, b, p, i + 1)

\* The low n bytes of a * b.
RECURSIVE MulBytes(_, _, _, _, _)
MulBytes(a, b, n, p, carry) ==
    IF p > n THEN <<>>
    ELSE LET t == Column(a, b, p, 1) + carry
         IN <<t % 256>> \o MulBytes(a, b, n, p + 1, t \div 256)

\* a * b in int64: the product modulo 2^64.
Mul64(a, b) == MulBytes(a, b, Int64Bytes, 1, 0)

RECURSIVE AddBytes(_, _, _, _)
AddBytes(a, b, p, carry) ==
    IF p > Len(a) THEN <<>>
    ELSE LET t == a[p] + b[p] + carry
         IN <<t % 256>> \o AddBytes(a, b, p + 1, t \div 256)

\* a + b in int64.
Add64(a, b) == AddBytes(a, b, 1, 0)

\* -a in int64.
Neg64(a) == Add64([i \in 1..Int64Bytes |-> 255 - a[i]], Int64(1))

\* a < b as unsigned numbers of equal length, from the top byte down.
RECURSIVE LessFrom(_, _, _)
LessFrom(a, b, p) ==
    IF p = 0 THEN FALSE
    ELSE IF a[p] # b[p] THEN a[p] < b[p]
    ELSE LessFrom(a, b, p - 1)

\* a < b in int64.
Less64(a, b) ==
    IF IsNeg(a) # IsNeg(b) THEN IsNeg(a) ELSE LessFrom(a, b, Len(a))

\* The bytes of a natural number a divided by a small number d, from the
\* top byte down; r is the remainder carried in.
RECURSIVE DivBytes(_, _, _, _)
DivBytes(a, d, p, r) ==
    IF p = 0 THEN <<>>
    ELSE LET t == r * 256 + a[p]
         IN DivBytes(a, d, p - 1, t % d) \o <<t \div d>>

baseBackoff == Int64(100000000)

maxBackoff == Mul64(Int64(30), Int64(1000000000))

\* The jitter: time.Duration(float64(backoff) * 0.25 * (0.5 + 0.5*nano/1000)),
\* that is backoff * (1000 + nano) / 8000 truncated toward zero (the
\* float64 rounding, at most a nanosecond here, is left out).
Jitter(backoff, nano) ==
    LET mag == IF IsNeg(backoff) THEN Neg64(backoff) ELSE backoff
        prod == MulBytes(mag, Int64(1000 + nano), Int64Bytes + 2, 1, 0)
        q == SubSeq(DivBytes(prod, 8000, Int64Bytes + 2, 0), 1, Int64Bytes)
    IN IF IsNeg(backoff) THEN Neg64(q) ELSE q

\* calculateBackoff(attempt), with nano = time.Now().UnixNano() % 1000.
calculateBackoff(att, nano) ==
    LET shifted == Mul64(baseBackoff, Shl1(att - 1))
        backoff == IF Less64(maxBackoff, shifted) THEN maxBackoff ELSE shifted
    IN Add64(backoff, Jitter(backoff, nano))

CallCalculateBackoff ==
    /\ \E n \in 1..MaxBackoffAttempt, x \in NanoSamples :
         call' = [fn |-> "calculateBackoff", attempt |-> n, nano |-> x,
                  out |-> calculateBackoff(n, x)]
    /\ UNCHANGED <<dumpVars, storeVars, retryVars, dataVars, copyVars, histVars>>

NextBackoff == CallCalculateBackoff

SpecBackoff == Init /\ [][NextBackoff]_vars

LessEq64(a, b) == ~Less64(b, a)

\* b = min(100ms * 2^(n-1), 30s) as a number: 100ms * 2^8 = 25.6s is the
\* last value below the cap.
ExpectedBase(n) == IF n <= 9 THEN Mul64(Int64(100000000), Shl1(n - 1))
                   ELSE Mul64(Int64(30), Int64(1000000000))

\* C13: for every attempt n >= 1, calculateBackoff(n) lies in [b, 1.25*b]
\* with b = min(100ms * 2^(n-1), 30s); no attempt, however large, gives a
\* delay below 100ms or above 37.5s.
C13_BackoffWithinBounds ==
    call.fn = "calculateBackoff"
       => LET b == ExpectedBase(call.attempt)
              quarter == SubSeq(DivBytes(b, 4, Int64Bytes, 0), 1, Int64Bytes)
          IN /\ LessEq64(b, call.out)
             /\ LessEq64(call.out, Add64(b, quarter))
             /\ LessEq64(Int64(100000000), call.out)
             /\ LessEq64(call.out, Mul64(Int64(375), Int64(100000000)))

(***************************************************************************)
(* Direct calls of the sync-state helper with either preference            *)
(* (TestIncrementalCopyHelperUseTarget, TestIncrementalCopyHelperFallback, *)
(* TestGetLastSyncTimeError): each call may find either side's metadata    *)
(* collection failing.                                                     *)
(***************************************************************************)
Other(side) == IF side = "target" THEN "source" ELSE "target"

CallGetLastSyncTime ==
    /\ pc = "idle"
    /\ \E useTarget \in BOOLEAN, fail \in Faults :
         call' = [fn |-> "GetLastSyncTime", useTarget |-> useTarget,
                  fail |-> fail, before |-> meta,
                  out |-> GetLastSyncTime(useTarget, meta, fail)]
    /\ UNCHANGED <<dumpVars, storeVars, retryVars, dataVars, copyVars, histVars>>

CallUpdateLastSyncTime ==
    /\ pc = "idle"
    /\ \E useTarget \in BOOLEAN, fail \in Faults :
         LET u == UpdateLastSyncTime(useTarget, meta, fail, now)
         IN /\ meta' = u.meta
            /\ call' = [fn |-> "UpdateLastSyncTime", useTarget |-> useTarget,
                        fail |-> fail, before |-> meta, out |-> u]
    /\ UNCHANGED <<dumpVars, storeVars, retryVars, source, target, now, copyVars, histVars>>

\* PrepareIncrementalFilter returns GetLastSyncTime's error, if any, and
\* else the filter for the time it got.
CallPrepareIncrementalFilter ==
    /\ pc = "idle"
    /\ \E useTarget \in BOOLEAN, fail \in Faults, field \in FieldNames :
         LET g == GetLastSyncTime(useTarget, meta, fail)
         IN call' = [fn |-> "PrepareIncrementalFilter", useTarget |-> useTarget,
                     fail |-> fail, field |-> field, before |-> meta,
                     lastSyncTime |-> g.time,
                     out |-> IF g.err THEN [filter |-> EmptyFilter, err |-> TRUE]
                             ELSE [filter |-> PrepareIncrementalFilter(g.time, field),
                                   err |-> FALSE]]
    /\ UNCHANGED <<dumpVars, storeVars, retryVars, dataVars, copyVars, histVars>>

NextSync ==
    \/ CallGetLastSyncTime
    \/ CallUpdateLastSyncTime
    \/ CallPrepareIncrementalFilter
    \/ Tick

SpecSync == Init /\ [][NextSync]_vars

\* What a reachable side answers to the read: its record's time, or the
\* zero time when it has none.
FoundOrZero(m, fail, side) == IF fail[side] THEN 0 ELSE m[side]

\* C14: when the read on the preferred side fails, the non-preferred side
\* is consulted exactly once and its found-or-zero result is returned, for
\* both settings of the preference.
C14_ReadFallsBackToOtherSide ==
    (call.fn = "GetLastSyncTime" /\ call.fail[Preferred(call.useTarget)])
       => LET pref == Preferred(call.useTarget)
          IN /\ call.out.reads = <<pref, Other(pref)>>
             /\ call.out.time = FoundOrZero(call.before, call.fail, Other(pref))

\* C15: GetLastSyncTime never returns an error, and when both sides fail
\* the timestamp returned is the zero timestamp.
C15_GetLastSyncTimeNeverErrs ==
    call.fn = "GetLastSyncTime"
       => /\ ~call.out.err
          /\ (\A s \in Sides : call.fail[s]) => call.out.time = 0

C15_Witness ==
    /\ call.fn = "GetLastSyncTime"
    /\ ~call.useTarget
    /\ \A s \in Sides : call.fail[s] /\ call.before[s] > 0
    /\ call.out.reads = <<"source", "target">>
    /\ call.out.time = 0

C17_WriteFallsBackToOtherSide ==
    call.fn = "UpdateLastSyncTime"
       => LET pref == Preferred(call.useTarget)
          IN /\ call.fail[pref] => call.out.writes = <<pref, Other(pref)>>
             /\ ~call.fail[pref] => call.out.writes = <<pref>>
             /\ call.out.ok <=> \E s \in Sides : ~call.fail[s]

\* C20: the filter is empty when the last sync time is zero, whatever the
\* field name; with a non-zero time and a field name it selects exactly the
\* documents whose value at the field is strictly greater than the time;
\* with a non-zero time and no field name it is empty; no error is returned.
C20_FilterSelectsStrictlyNewer ==
    call.fn = "PrepareIncrementalFilter"
       => /\ ~call.out.err
          /\ call.lastSyncTime = 0 => call.out.filter = EmptyFilter
          /\ (call.lastSyncTime # 0 /\ call.field # "")
                => \A v \in 0..(MaxTime + 1) :
                     Matches(Doc(v), call.out.filter) <=> v > call.lastSyncTime
          /\ (call.lastSyncTime # 0 /\ call.field = "")
                => call.out.filter = EmptyFilter
          /\ call.out.filter = EmptyFilter
                => \A v \in 0..(MaxTime + 1) : Matches(Doc(v), call.out.filter)

C20_Witness ==
    /\ call.fn = "PrepareIncrementalFilter"
    /\ call.lastSyncTime = 1
    /\ call.field = "lastModified"
    /\ Matches(Doc(2), call.out.filter)
    /\ ~Matches(Doc(1), call.out.filter)

(***************************************************************************)
(* The checkpoint write of a copy, checked under Spec.                     *)
(***************************************************************************)
\* C18: when the checkpoint write of an incremental copy fails on both
\* metadata sides, the copy does not report success: the write failure
\* reaches the caller of the copy.
C18_FailedCheckpointWriteFailsCopy ==
    (pc = "done" /\ incremental /\ cpRefused = Sides /\ cpWrites = 0)
       => result # "ok"

(***************************************************************************)
(* Runs that overlap on one collection.  Each run calls the helper as      *)
(* above; the server handles UpdateOne(filter, update, upsert) in two      *)
(* steps, the match of the filter and, when nothing matched, the insert of *)
(* a new record, and steps of different requests interleave: the helper    *)
(* creates no unique index on (databaseName, collectionName) that would    *)
(* make the second of two inserts fail.                                    *)
(***************************************************************************)
\* What FindOne sees on each side: the first record of the key, if any.
FirstRecord == [s \in Sides |-> IF syncState[s] = <<>> THEN 0 ELSE Head(syncState[s])]

\* A run calls GetLastSyncTime.
RunGetLastSyncTime ==
    /\ pc = "idle"
    /\ \E r \in Runs, useTarget \in BOOLEAN, fail \in Faults :
         /\ upserts[r] = NoUpsert
         /\ call' = [fn |-> "GetLastSyncTime", useTarget |-> useTarget,
                     fail |-> fail, before |-> FirstRecord,
                     out |-> GetLastSyncTime(useTarget, FirstRecord, fail)]
    /\ UNCHANGED <<dumpVars, storeVars, retryVars, dataVars, copyVars, histVars>>

\* A run calls UpdateLastSyncTime with lastSyncTime = time.Now(): on the
\* side that takes the write the server matches the filter; it sets the
\* fields of the first record that matches, or else goes on to insert.
RunUpdateLastSyncTime ==
    /\ pc = "idle"
    /\ \E r \in Runs, useTarget \in BOOLEAN, fail \in Faults :
         LET u == UpdateLastSyncTime(useTarget, FirstRecord, fail, now)
             side == Last(u.writes)
         IN /\ upserts[r] = NoUpsert
            /\ u.ok
            /\ IF syncState[side] # <<>>
               THEN /\ syncState' = [syncState EXCEPT ![side][1] = now]
                    /\ UNCHANGED upserts
               ELSE /\ upserts' = [upserts EXCEPT ![r] =
                                     [pc |-> "insert", side |-> side, t |-> now]]
                    /\ UNCHANGED syncState
    /\ UNCHANGED <<dumpVars, callVars, retryVars, dataVars, copyVars, histVars>>

\* The server inserts the record of an upsert that matched nothing, and
\* UpdateOne returns.
UpsertInserts ==
    /\ \E r \in Runs :
         /\ upserts[r].pc = "insert"
         /\ syncState' = [syncState EXCEPT ![upserts[r].side] =
                            Append(@, upserts[r].t)]
         /\ upserts' = [upserts EXCEPT ![r] = NoUpsert]
    /\ UNCHANGED <<dumpVars, callVars, retryVars, dataVars, copyVars, histVars>>

NextRuns ==
    \/ RunGetLastSyncTime
    \/ RunUpdateLastSyncTime
    \/ UpsertInserts
    \/ Tick

SpecRuns == Init /\ [][NextRuns]_vars

\* C19: after any interleaving of GetLastSyncTime and UpdateLastSyncTime
\* calls, concurrent runs on one collection included, each metadata
\* location holds at most one record of the key, and no record that once
\* existed is removed.
C19_OneRecordPerKey ==
    /\ [](\A s \in Sides : Len(syncState[s]) <= 1)
    /\ [][\A s \in Sides : Len(syncState'[s]) >= Len(syncState[s])]_vars

(***************************************************************************)
(* CopyCollection under a caller that cancels.  The caller's context is    *)
(* the ctx parameter of CopyCollection; cancel() or the deadline may come  *)
(* before the call or at any moment of it.                                 *)
(***************************************************************************)
Running == {"cursor", "read", "flushFull", "rest", "flushRest", "cursorErr", "indexes"}

CancelCopy ==
    /\ ctxState = "active"
    /\ rCtx = "background" \/ rPc = "idle"
    /\ ctxState' \in {"canceled", "deadline"}
    /\ UNCHANGED <<rPc, rOp, rCtx, attempts, attempt, lastErr, rRet, fnLog,
                   sleeps, timerFires>>
    /\ UNCHANGED <<dumpVars, storeVars, callVars, dataVars, copyVars, histVars>>

NextCancel ==
    \/ Next
    \/ CancelCopy

SpecCancel == Init /\ [][NextCancel]_vars

\* C21: once the context the caller passed is canceled or past its
\* deadline, a transfer that is called or under way reads no further
\* document and runs no index replication, and it ends with a cancellation
\* error, never with success.
C21_CancellationStopsTransfer ==
    [][(ctxState # "active")
         => /\ (pc = "idle" /\ pc' # "idle")
                  => (pc' = "done" /\ result' = "canceled")
            /\ pc \in Running
                  => /\ yielded' = yielded
                     /\ indexesRun' = indexesRun
                     /\ pc' = "done" => result' = "canceled"]_vars

(***************************************************************************)
(* Errors of a copy, checked under Spec.                                   *)
(***************************************************************************)
\* C22: when a batch flush returns an error, no further document is read
\* and no further batch is flushed, index replication is not attempted and
\* the error is returned; when the cursor reports an iteration error, the
\* copy returns an error and index replication is not attempted.
C22_ErrorsEndTheCopy ==
    /\ (pc \in {"flushFull", "flushRest"} /\ rPc = "ret" /\ rRet # RetNil)
          => /\ ~indexesRun
             /\ yielded = Concat(flushed) \o batch
    /\ (pc = "done" /\ result \in {"nonretryable", "exhausted"})
          => /\ ~indexesRun
             /\ yielded = Concat(flushed) \o batch
    /\ (pc = "done" /\ iterErr)
          => /\ result \in {"cursor", "nonretryable", "exhausted"}
             /\ ~indexesRun
    /\ (pc \in {"cursorErr", "indexes"}) => ~iterErr

C22_Witness ==
    /\ pc = "done"
    /\ result = "exhausted"
    /\ batch # <<>>
    /\ cursor # <<>>
    /\ ~indexesRun

(***************************************************************************)
(* Index replication (CopyCollectionIndexes and its helpers).  An index    *)
(* document of the source holds its name, its key specification as the     *)
(* server keeps it (the field/direction pairs in order), whether the key   *)
(* decodes as a document, and the unique and sparse settings.  The index   *)
(* documents are decoded into bson.M, a Go map: the key specification      *)
(* loses its order there, and ranging over a map visits its fields in an   *)
(* order the language leaves open.                                         *)
(***************************************************************************)
MaxIndexes == 2

I32(n) == [t |-> "int32", v |-> n]

F64(n) == [t |-> "float64", v |-> n]

Str(x) == [t |-> "string", v |-> x]

IndexDoc(name, key, valid, unique, sparse) ==
    [name |-> name, key |-> key, valid |-> valid, unique |-> unique, sparse |-> sparse]

IdIndex == IndexDoc("_id_", << <<"_id", I32(1)>> >>, TRUE, FALSE, FALSE)

\* The custom indexes of the source collections.
CustomIndexes ==
    { IndexDoc("a_1", << <<"a", I32(1)>> >>, TRUE, TRUE, FALSE),
      IndexDoc("a_1_b_-1", << <<"a", I32(1)>>, <<"b", F64(-1)>> >>, TRUE, FALSE, TRUE),
      IndexDoc("c_text", << <<"c", Str("text")>> >>, TRUE, FALSE, FALSE),
      IndexDoc("b_-1_a_1", << <<"b", I32(-1)>>, <<"a", I32(1)>> >>, TRUE, FALSE, FALSE),
      IndexDoc("bad", <<>>, FALSE, FALSE, FALSE),
      IndexDoc("seen_1", << <<"seen", I32(1)>> >>, TRUE, FALSE, FALSE)
         @@ [expireAfterSeconds |-> I32(3600)],
      IndexDoc("made_1", << <<"made", I32(1)>> >>, TRUE, FALSE, FALSE)
         @@ [expireAfterSeconds |-> F64(3600)] }

RECURSIVE DistinctSeqs(_, _)
DistinctSeqs(S, n) ==
    IF n = 0 THEN {<<>>}
    ELSE {<<>>} \cup UNION {{<<x>> \o t : t \in DistinctSeqs(S \ {x}, n - 1)} : x \in S}

\* What ListCollectionIndexes returns: the _id index and the custom ones.
IndexLists == {<<IdIndex>> \o t : t \in DistinctSeqs(CustomIndexes, MaxIndexes)}

\* indexDoc["key"].(bson.M): the key specification as a map.
KeyDoc(indexDoc) ==
    [f \in {indexDoc.key[i][1] : i \in 1..Len(indexDoc.key)} |->
        (CHOOSE p \in {indexDoc.key[i] : i \in 1..Len(indexDoc.key)} : p[1] = f)[2]]

\* The orders in which a range over a map with the fields S may visit them.
Orders(S) ==
    {o \in [1..Cardinality(S) -> S] : \A i, j \in 1..Cardinality(S) : i # j => o[i] # o[j]}

\* The direction extractIndexKeys appends: int32 as it is, float64 as
\* int32(val), anything else as it is.
Direction(val) == IF val.t = "float64" THEN I32(val.v) ELSE val

\* extractIndexKeys: the bson.D results it may return.
extractIndexKeys(keyDoc) ==
    {[i \in 1..Cardinality(DOMAIN keyDoc) |-> <<o[i], Direction(keyDoc[o[i]])>>]
        : o \in Orders(DOMAIN keyDoc)}

\* An option of options.IndexOptions that was not set.
Unset == [t |-> "unset"]

\* buildIndexOptions: the name, unique and sparse, and expireAfterSeconds
\* when the index document holds it as an int32.
buildIndexOptions(indexDoc) ==
    [name |-> indexDoc.name, unique |-> indexDoc.unique, sparse |-> indexDoc.sparse,
     expireAfterSeconds |->
        IF "expireAfterSeconds" \in DOMAIN indexDoc
              /\ indexDoc.expireAfterSeconds.t = "int32"
        THEN indexDoc.expireAfterSeconds
        ELSE Unset]

\* convertToIndexModel: the results it may return.
convertToIndexModel(indexDoc) ==
    IF ~indexDoc.valid THEN {[ok |-> FALSE]}
    ELSE {[ok |-> TRUE, keys |-> k, options |-> buildIndexOptions(indexDoc)]
            : k \in extractIndexKeys(KeyDoc(indexDoc))}

isIDIndex(indexDoc) == indexDoc.name = "_id_"

RECURSIVE copyLoop_stop(_, _)
copyLoop_stop(indexes, refuse) ==
    IF indexes = <<>> THEN {[attempted |-> <<>>, created |-> <<>>]}
    ELSE LET d == Head(indexes)
             rest == copyLoop_stop(Tail(indexes), refuse)
         IN IF isIDIndex(d) THEN rest
            ELSE UNION {IF ~m.ok THEN {[attempted |-> <<>>, created |-> <<>>]}
                        ELSE IF d.name \in refuse
                        THEN {[attempted |-> <<m>>, created |-> <<>>]}
                        ELSE {[attempted |-> <<m>> \o r.attempted,
                               created |-> <<m>> \o r.created] : r \in rest}
                          : m \in convertToIndexModel(d)}

\* The loop of CopyCollectionIndexes over the index documents: the models
\* handed to CreateOne and those it created, in order; refuse holds the
\* names of the indexes whose creation the target refuses.
RECURSIVE copyLoop(_, _)
copyLoop(indexes, refuse) ==
    IF indexes = <<>> THEN {[attempted |-> <<>>, created |-> <<>>]}
    ELSE LET d == Head(indexes)
             rest == copyLoop(Tail(indexes), refuse)
         IN IF isIDIndex(d) THEN rest
            ELSE UNION {IF ~m.ok THEN rest
                        ELSE {[attempted |-> <<m>> \o r.attempted,
                               created |-> (IF d.name \in refuse THEN <<>> ELSE <<m>>)
                                             \o r.created] : r \in rest}
                          : m \in convertToIndexModel(d)}

\* CopyCollectionIndexes: the outcomes it may have.
CopyIndexes(indexes, listFails, refuse) ==
    IF listFails \/ Len(indexes) <= 1
    THEN {[err |-> listFails, attempted |-> <<>>, created |-> <<>>]}
    ELSE {[err |-> FALSE, attempted |-> r.attempted, created |-> r.created]
            : r \in copyLoop(indexes, refuse)}

\* A direct call of CopyCollectionIndexes as CopyCollection makes it, and
\* what CopyCollection returns after it.
CallCopyCollectionIndexes ==
    /\ pc = "idle"
    /\ call = NoCall
    /\ \E indexes \in IndexLists, listFails \in BOOLEAN :
         \E refuse \in SUBSET {indexes[i].name : i \in 2..Len(indexes)} :
            \E out \in CopyIndexes(indexes, listFails, refuse) :
               call' = [fn |-> "CopyCollectionIndexes", indexes |-> indexes,
                        listFails |-> listFails, refuse |-> refuse,
                        out |-> out, copy |-> afterIndexes(out.err)]
    /\ UNCHANGED <<dumpVars, storeVars, retryVars, dataVars, copyVars, histVars>>

NextIndexes == CallCopyCollectionIndexes

SpecIndexes == Init /\ [][NextIndexes]_vars

Names(models) == [i \in 1..Len(models) |-> models[i].options.name]

\* The names of the custom indexes of a list whose key is a document and,
\* with skip, whose creation the target accepts, in the list's order.
RECURSIVE Convertible(_, _)
Convertible(indexes, skip) ==
    IF indexes = <<>> THEN <<>>
    ELSE LET d == Head(indexes)
         IN (IF d.name = "_id_" \/ ~d.valid \/ d.name \in skip THEN <<>>
             ELSE <<d.name>>) \o Convertible(Tail(indexes), skip)

\* C23: a failure to convert or create one index does not stop the attempts
\* for the remaining source indexes, CopyCollectionIndexes returns no error
\* even if every creation fails, and the copy of the collection is reported
\* successful even when index listing or every index creation fails.
C23_IndexReplicationIsBestEffort ==
    call.fn = "CopyCollectionIndexes"
       => /\ call.copy = "ok"
          /\ ~call.listFails
                => /\ ~call.out.err
                   /\ Names(call.out.attempted) = Convertible(call.indexes, {})
                   /\ Names(call.out.created) = Convertible(call.indexes, call.refuse)

C23_Witness ==
    /\ call.fn = "CopyCollectionIndexes"
    /\ ~call.listFails
    /\ Len(call.indexes) = 3
    /\ call.indexes[2].name \in call.refuse
    /\ Names(call.out.created) = <<call.indexes[3].name>>
    /\ call.copy = "ok"

\* The expiry of a source index as the target should get it: its seconds as
\* the int32 of the option, or none.
SourceExpiry(indexDoc) ==
    IF "expireAfterSeconds" \in DOMAIN indexDoc
    THEN I32(indexDoc.expireAfterSeconds.v)
    ELSE Unset

\* C35: CopyCollectionIndexes never hands the _id_ index to CreateOne; it
\* hands nothing to it when the source lists only the _id_ index; otherwise
\* it hands it one model for every other source index whose key is a
\* document, in the order listed, with that index's name, unique, sparse
\* and expireAfterSeconds.
C35_OneCreatePerCustomIndex ==
    (call.fn = "CopyCollectionIndexes" /\ ~call.listFails)
       => /\ \A k \in 1..Len(call.out.attempted) :
                call.out.attempted[k].options.name # "_id_"
          /\ call.indexes = <<IdIndex>> => call.out.attempted = <<>>
          /\ Names(call.out.attempted) = Convertible(call.indexes, {})
          /\ \A k \in 1..Len(call.out.attempted) :
                \A i \in 1..Len(call.indexes) :
                   call.indexes[i].name = call.out.attempted[k].options.name
                      => LET o == call.out.attempted[k].options
                             d == call.indexes[i]
                         IN /\ o.unique = d.unique
                            /\ o.sparse = d.sparse
                            /\ o.expireAfterSeconds = SourceExpiry(d)

\* The key of a source index as the target should get it: the pairs in the
\* order of the key specification, numeric directions as int32.
SourceKeys(indexDoc) ==
    [i \in 1..Len(indexDoc.key) |->
        <<indexDoc.key[i][1],
          IF indexDoc.key[i][2].t = "string" THEN indexDoc.key[i][2]
          ELSE I32(indexDoc.key[i][2].v)>>]

\* C24: the index created on the target has its field/direction pairs in
\* the order of the source index's key specification and the same direction
\* for each field; a float64 direction becomes the equal int32 and a kind
\* such as "text" is passed through unchanged.
C24_IndexKeysKeepOrder ==
    call.fn = "CopyCollectionIndexes"
       => \A k \in 1..Len(call.out.created) :
            \A i \in 1..Len(call.indexes) :
               call.indexes[i].name = call.out.created[k].options.name
                  => call.out.created[k].keys = SourceKeys(call.indexes[i])

(***************************************************************************)
(* Document comparison (compare.go).  A document is a function from field  *)
(* names to values; a value carries its Go dynamic type: int (an untyped   *)
(* constant in a bson.M literal), int32, bool, bson.M, []interface{} (a    *)
(* slice in a literal) and primitive.A (an array decoded from the server). *)
(* bsonEqual ranges over Go maps, so where the outcome depends on the      *)
(* order of the fields it is the set of the outcomes of all orders:        *)
(* "true", "false", or "panic" for the run-time panic of == on two         *)
(* interface values of one uncomparable dynamic type.                      *)
(***************************************************************************)
MaxFields == 2

MaxLen == 2

GoInt(n) == [t |-> "int", v |-> n]

Bool(b) == [t |-> "bool", v |-> b]

DocV(d) == [t |-> "doc", v |-> d]

Slice(s) == [t |-> "slice", v |-> s]

PrimA(s) == [t |-> "A", v |-> s]

Ext(d, f, val) == [k \in DOMAIN d \cup {f} |-> IF k = f THEN val ELSE d[k]]

RECURSIVE DocsOver(_, _)
DocsOver(S, choices) ==
    IF S = {} THEN {<<>>}
    ELSE LET f == CHOOSE x \in S : TRUE
         IN {Ext(d, f, val) : d \in DocsOver(S \ {f}, choices), val \in choices[f]}

DocsUpTo(choices, n) ==
    UNION {DocsOver(S, choices)
             : S \in {T \in SUBSET DOMAIN choices : Cardinality(T) <= n}}

DocsWith(choices) == DocsUpTo(choices, MaxFields)

RECURSIVE SeqsUpTo(_, _)
SeqsUpTo(S, n) ==
    IF n = 0 THEN {<<>>}
    ELSE {<<>>} \cup {<<x>> \o t : x \in S, t \in SeqsUpTo(S, n - 1)}

\* The documents nested in a field or in an array.
InnerDocs == DocsWith([value |-> {GoInt(1), GoInt(2)}, modified |-> {Bool(TRUE)}])

Elements == {GoInt(1), GoInt(2), DocV(Ext(<<>>, "value", GoInt(1)))}

Arrays == {Slice(s) : s \in SeqsUpTo(Elements, MaxLen)}
            \cup {PrimA(s) : s \in SeqsUpTo(Elements, MaxLen)}

\* The documents handed to bsonEqual.
Docs ==
    DocsWith([_id |-> {GoInt(1), GoInt(2), I32(2)},
              value |-> {GoInt(1), GoInt(2)},
              lastModified |-> {GoInt(1), GoInt(2)},
              updatedAt |-> {GoInt(1), GoInt(2)},
              modified |-> {Bool(TRUE)},
              nested |-> {DocV(d) : d \in InnerDocs},
              arr |-> Arrays])

\* aVal == bVal on two interface values.
InterfaceEq(aVal, bVal) ==
    IF aVal.t # bVal.t THEN "false"
    ELSE IF aVal.t \in {"doc", "slice", "A"} THEN "panic"
    ELSE IF aVal.v = bVal.v THEN "true" ELSE "false"

shouldSkipCompare(doc, key) ==
    /\ key = "value"
    /\ "_id" \in DOMAIN doc
    /\ doc["_id"].t = "int"
    /\ doc["_id"].v = 2

hasExtraKeys(a, b) ==
    \E key \in DOMAIN b : key \notin {"lastModified", "modified"} /\ key \notin DOMAIN a

RECURSIVE bsonEqual(_, _), compareDocumentKeys(_, _), compareValues(_, _), sliceLoop(_, _, _)

\* The loop of sliceEqual from index i on.
sliceLoop(a, b, i) ==
    IF i > Len(a) THEN {"true"}
    ELSE LET r == IF a[i].t = "doc" /\ b[i].t = "doc"
                  THEN bsonEqual(a[i].v, b[i].v)
                  ELSE {InterfaceEq(a[i], b[i])}
         IN (r \ {"true"}) \cup (IF "true" \in r THEN sliceLoop(a, b, i + 1) ELSE {})

sliceEqual(a, b) == IF Len(a) # Len(b) THEN {"false"} ELSE sliceLoop(a, b, 1)

compareValues(aVal, bVal) ==
    IF aVal.t = "doc"
    THEN IF bVal.t = "doc" THEN bsonEqual(aVal.v, bVal.v) ELSE {"false"}
    ELSE IF aVal.t = "slice"
    THEN IF bVal.t = "slice" THEN sliceEqual(aVal.v, bVal.v) ELSE {"false"}
    ELSE {InterfaceEq(aVal, bVal)}

\* One pass of the loop of compareDocumentKeys, for the field key of a.
keyOutcomes(a, b, key) ==
    IF key = "lastModified" THEN {"true"}
    ELSE IF key \notin DOMAIN b THEN {"false"}
    ELSE IF shouldSkipCompare(a, key) THEN {"true"}
    ELSE compareValues(a[key], b[key])

\* compareDocumentKeys: true when every pass goes on; the first pass that
\* does not go on, in the order of the range over a, decides otherwise.
compareDocumentKeys(a, b) ==
    (IF \A key \in DOMAIN a : "true" \in keyOutcomes(a, b, key) THEN {"true"} ELSE {})
        \cup UNION {keyOutcomes(a, b, key) \ {"true"} : key \in DOMAIN a}

bsonEqual(a, b) ==
    {IF c # "true" THEN c ELSE IF hasExtraKeys(a, b) THEN "false" ELSE "true"
        : c \in compareDocumentKeys(a, b)}

\* The names the last-modified field is configured with (config.go,
\* README: --last-modified-field="updatedAt").
ConfiguredFields == {"lastModified", "updatedAt"}

\* A direct call of bsonEqual under a configuration; bsonEqual takes the
\* two documents only.
CallBsonEqual ==
    /\ call = NoCall
    /\ \E field \in ConfiguredFields, a \in Docs, b \in Docs :
         \E out \in bsonEqual(a, b) :
            call' = [fn |-> "bsonEqual", field |-> field, a |-> a, b |-> b, out |-> out]
    /\ UNCHANGED <<dumpVars, storeVars, retryVars, dataVars, copyVars, histVars>>

NextEqual == CallBsonEqual

SpecEqual == Init /\ [][NextEqual]_vars

IsArray(x) == x.t \in {"slice", "A"}

\* Structural equality of two documents ignoring the field vol.
RECURSIVE StructEqual(_, _, _), ValueEqual(_, _, _)
ValueEqual(x, y, vol) ==
    IF x.t = "doc" /\ y.t = "doc" THEN StructEqual(x.v, y.v, vol)
    ELSE IF IsArray(x) /\ IsArray(y)
    THEN /\ Len(x.v) = Len(y.v)
         /\ \A i \in 1..Len(x.v) : ValueEqual(x.v[i], y.v[i], vol)
    ELSE x.t = y.t /\ x.v = y.v

StructEqual(a, b, vol) ==
    /\ DOMAIN a \ {vol} = DOMAIN b \ {vol}
    /\ \A key \in DOMAIN a \ {vol} : ValueEqual(a[key], b[key], vol)

\* C27: bsonEqual(a, b) is true if and only if, ignoring the volatile
\* field, a and b have the same set of field names and every shared field
\* has equal values, nested documents by the same rule and arrays element
\* by element in order with equal length; no other field name and no
\* particular document key is exempt.
C27_BsonEqualIsStructuralEquality ==
    (call.fn = "bsonEqual" /\ call.field = "lastModified")
       => call.out = (IF StructEqual(call.a, call.b, "lastModified")
                      THEN "true" ELSE "false")

\* Two documents that are the same but for the value of the field vol.
SameExcept(a, b, vol) ==
    /\ DOMAIN a = DOMAIN b
    /\ vol \in DOMAIN a
    /\ \A key \in DOMAIN a \ {vol} : a[key].t = b[key].t /\ a[key].v = b[key].v

\* C28: two documents that are identical except for the value of the
\* configured last-modified field compare as equal, whichever field name is
\* configured.
C28_ConfiguredFieldIsTolerated ==
    (call.fn = "bsonEqual" /\ SameExcept(call.a, call.b, call.field))
       => call.out = "true"

(***************************************************************************)
(* Collection comparison (compare.go).  A collection is a function from    *)
(* the _id values it holds to its documents as Decode(&doc) returns them   *)
(* into a bson.M: every document has its _id, integers are int32 and       *)
(* arrays are primitive.A.  A result that is a run-time panic has panic    *)
(* set; err is the error returned next to the result.                      *)
(***************************************************************************)
StoredBodies ==
    DocsUpTo([value |-> {I32(1), I32(2)},
              lastModified |-> {I32(1), I32(2)},
              modified |-> {Bool(TRUE)},
              arr |-> {PrimA(<<I32(1)>>)}], MaxFields - 1)

Colls ==
    UNION {{[i \in S |-> Ext(f[i], "_id", I32(i))] : f \in [S -> StoredBodies]}
             : S \in SUBSET Ids}

\* The documents of a cursor over the whole collection.
RECURSIVE FindAll(_, _)
FindAll(coll, ids) ==
    IF ids = <<>> THEN <<>>
    ELSE (IF Head(ids) \in DOMAIN coll THEN <<coll[Head(ids)]>> ELSE <<>>)
            \o FindAll(coll, Tail(ids))

CountDocuments(coll) == Cardinality(DOMAIN coll)

CountFaults == {"none", "source", "target"}

ComparisonResult ==
    [panic |-> FALSE, err |-> FALSE, sourceCount |-> 0, targetCount |-> 0,
     difference |-> 0, missingInTarget |-> 0, missingInSource |-> 0,
     differentDocuments |-> 0]

Panicked == [ComparisonResult EXCEPT !.panic = TRUE]

CompareCollectionCounts_swapped(src, tgt, fail) ==
    IF fail = "source" THEN [ComparisonResult EXCEPT !.err = TRUE]
    ELSE IF fail = "target"
    THEN [ComparisonResult EXCEPT !.err = TRUE, !.sourceCount = CountDocuments(src)]
    ELSE [ComparisonResult EXCEPT !.sourceCount = CountDocuments(src),
                                  !.targetCount = CountDocuments(tgt),
                                  !.difference = CountDocuments(tgt) - CountDocuments(src)]

\* CompareCollectionCounts, and calculateCollectionCounts, which sets the
\* same three fields of the result in the same way.
CompareCollectionCounts(src, tgt, fail) ==
    IF fail = "source" THEN [ComparisonResult EXCEPT !.err = TRUE]
    ELSE IF fail = "target"
    THEN [ComparisonResult EXCEPT !.err = TRUE, !.sourceCount = CountDocuments(src)]
    ELSE [ComparisonResult EXCEPT !.sourceCount = CountDocuments(src),
                                  !.targetCount = CountDocuments(tgt),
                                  !.difference = CountDocuments(src) - CountDocuments(tgt)]

calculateCollectionCounts(src, tgt, fail) == CompareCollectionCounts(src, tgt, fail)

\* processSourceDocument on a DocumentProcessingResult r.
processSourceDocument(doc, tgt, r) ==
    IF "_id" \notin DOMAIN doc THEN {r}
    ELSE IF doc["_id"].v \notin DOMAIN tgt
    THEN {[r EXCEPT !.missingInTarget = @ + 1]}
    ELSE {IF o = "panic" THEN [r EXCEPT !.panic = TRUE]
          ELSE IF o = "false" THEN [r EXCEPT !.different = @ + 1]
          ELSE r : o \in bsonEqual(doc, tgt[doc["_id"].v])}

\* The loop of processSourceDocuments over the rest of the cursor.
RECURSIVE processSourceDocuments(_, _, _)
processSourceDocuments(cursorDocs, tgt, r) ==
    IF r.panic \/ cursorDocs = <<>> THEN {r}
    ELSE UNION {processSourceDocuments(Tail(cursorDocs), tgt, q)
                  : q \in processSourceDocument(Head(cursorDocs), tgt, r)}

processTargetDocument(doc, src, n) ==
    IF "_id" \notin DOMAIN doc THEN n
    ELSE IF doc["_id"].v \notin DOMAIN src THEN n + 1
    ELSE n

RECURSIVE processTargetDocuments(_, _, _)
processTargetDocuments(cursorDocs, src, n) ==
    IF cursorDocs = <<>> THEN n
    ELSE processTargetDocuments(Tail(cursorDocs), src,
                                processTargetDocument(Head(cursorDocs), src, n))

\* CompareCollectionData: compareSourceToTarget, then, if detailed,
\* compareTargetToSource.
CompareCollectionData(src, tgt, detailed, fail) ==
    LET counts == calculateCollectionCounts(src, tgt, fail)
    IN IF counts.err \/ ~detailed THEN {counts}
       ELSE {IF p.panic THEN Panicked
             ELSE [counts EXCEPT
                     !.missingInTarget = p.missingInTarget,
                     !.differentDocuments = p.different,
                     !.missingInSource =
                         processTargetDocuments(FindAll(tgt, IdSeq), src, 0)]
               : p \in processSourceDocuments(FindAll(src, IdSeq), tgt,
                          [panic |-> FALSE, missingInTarget |-> 0, different |-> 0])}

CallCompareCollectionCounts ==
    /\ call = NoCall
    /\ \E src \in Colls, tgt \in Colls, fail \in CountFaults :
         call' = [fn |-> "CompareCollectionCounts", src |-> src, tgt |-> tgt,
                  detailed |-> FALSE, fail |-> fail,
                  out |-> CompareCollectionCounts(src, tgt, fail)]
    /\ UNCHANGED <<dumpVars, storeVars, retryVars, dataVars, copyVars, histVars>>

CallCompareCollectionData ==
    /\ call = NoCall
    /\ \E src \in Colls, tgt \in Colls, detailed \in BOOLEAN, fail \in CountFaults :
         \E out \in CompareCollectionData(src, tgt, detailed, fail) :
            call' = [fn |-> "CompareCollectionData", src |-> src, tgt |-> tgt,
                     detailed |-> detailed, fail |-> fail, out |-> out]
    /\ UNCHANGED <<dumpVars, storeVars, retryVars, dataVars, copyVars, histVars>>

NextCompare == CallCompareCollectionCounts \/ CallCompareCollectionData

SpecCompare == Init /\ [][NextCompare]_vars

Common(src, tgt) == DOMAIN src \cap DOMAIN tgt

\* C25: detailed Compare: missingInTarget is the number of source documents
\* whose key has no document in the target, differentDocuments the number
\* of source documents whose key is in the target with a structurally
\* unequal document, missingInSource the number of target documents whose
\* key has no document in the source, and difference is sourceCount minus
\* targetCount.
C25_DetailedCompareCounts ==
    (call.fn = "CompareCollectionData" /\ call.detailed /\ call.fail = "none")
       => /\ ~call.out.panic
          /\ call.out.missingInTarget = Cardinality(DOMAIN call.src \ DOMAIN call.tgt)
          /\ call.out.differentDocuments =
                Cardinality({i \in Common(call.src, call.tgt) :
                               ~StructEqual(call.src[i], call.tgt[i], "lastModified")})
          /\ call.out.missingInSource = Cardinality(DOMAIN call.tgt \ DOMAIN call.src)
          /\ call.out.difference = call.out.sourceCount - call.out.targetCount

\* C26: count-only Compare: the result carries the two document counts and
\* difference = sourceCount - targetCount, and missingInTarget,
\* missingInSource and differentDocuments are zero whatever the two
\* collections contain.
C26_CountOnlyCompare ==
    (call.fn \in {"CompareCollectionCounts", "CompareCollectionData"}
        /\ ~call.detailed /\ call.fail = "none")
       => /\ call.out.sourceCount = Cardinality(DOMAIN call.src)
          /\ call.out.targetCount = Cardinality(DOMAIN call.tgt)
          /\ call.out.difference = call.out.sourceCount - call.out.targetCount
          /\ call.out.missingInTarget = 0
          /\ call.out.missingInSource = 0
          /\ call.out.differentDocuments = 0
          /\ ~call.out.err

C26_Witness ==
    /\ call.fn = "CompareCollectionCounts"
    /\ call.fail = "none"
    /\ DOMAIN call.src = {1}
    /\ DOMAIN call.tgt = {2}
    /\ call.out.sourceCount = 1
    /\ call.out.difference = 0
    /\ call.out.missingInTarget = 0

(***************************************************************************)
(* Index comparison (compare.go).  The index documents are those of        *)
(* ListCollectionIndexes; the reason of a result is its kind and the name  *)
(* of the index it is about.                                               *)
(***************************************************************************)
AuditKeys ==
    [a_1 |-> {<< <<"a", I32(1)>> >>, << <<"a", I32(-1)>> >>,
              << <<"a", I32(1)>>, <<"b", I32(1)>> >>},
     lastModified_1 |-> {<< <<"lastModified", I32(1)>> >>,
                         << <<"lastModified", I32(-1)>> >>,
                         << <<"lastModified", I32(1)>>, <<"modified", I32(1)>> >>}]

AuditIndexes ==
    {IndexDoc(n, k, TRUE, u, sp)
        : n \in DOMAIN AuditKeys, k \in UNION {AuditKeys[x] : x \in DOMAIN AuditKeys},
          u \in BOOLEAN, sp \in BOOLEAN}

\* The lists of index documents of a collection: the _id index and custom
\* indexes of different names.
AuditLists ==
    {<<IdIndex>> \o t
        : t \in {q \in DistinctSeqs({d \in AuditIndexes : d.key \in AuditKeys[d.name]},
                                    MaxIndexes)
                   : \A i, j \in 1..Len(q) : i # j => q[i].name # q[j].name}}

Reason(kind, name) == [kind |-> kind, name |-> name]

IndexResult(isEqual, reason, err) == [isEqual |-> isEqual, reason |-> reason, err |-> err]

\* createIndexMap, as the set of the names it maps and its lookup.
createIndexMap(indexes) == {indexes[i].name : i \in 1..Len(indexes)}

IndexNamed(indexes, name) ==
    indexes[CHOOSE i \in 1..Len(indexes) : indexes[i].name = name]

\* compareIndexProperties: the results it may return.
compareIndexProperties(name, sourceIdx, targetIdx) ==
    IF ~sourceIdx.valid \/ ~targetIdx.valid
    THEN {IndexResult(FALSE, Reason("key", name), FALSE)}
    ELSE {IF o = "panic" THEN IndexResult(FALSE, Reason("panic", name), FALSE)
          ELSE IF o = "false" THEN IndexResult(FALSE, Reason("key", name), FALSE)
          ELSE IF sourceIdx.unique # targetIdx.unique
          THEN IndexResult(FALSE, Reason("unique", name), FALSE)
          ELSE IF sourceIdx.sparse # targetIdx.sparse
          THEN IndexResult(FALSE, Reason("sparse", name), FALSE)
          ELSE IndexResult(TRUE, Reason("", ""), FALSE)
            : o \in bsonEqual(KeyDoc(sourceIdx), KeyDoc(targetIdx))}

\* compareIndexDefinitions over the target indexes from the first on.
RECURSIVE compareIndexDefinitions(_, _)
compareIndexDefinitions(targetIndexes, sourceIndexes) ==
    IF targetIndexes = <<>> THEN {IndexResult(TRUE, Reason("", ""), FALSE)}
    ELSE LET targetIdx == Head(targetIndexes)
             name == targetIdx.name
         IN IF name \notin createIndexMap(sourceIndexes)
            THEN {IndexResult(FALSE, Reason("missing", name), FALSE)}
            ELSE UNION {IF ~r.isEqual THEN {r}
                        ELSE compareIndexDefinitions(Tail(targetIndexes), sourceIndexes)
                          : r \in compareIndexProperties(
                                     name, IndexNamed(sourceIndexes, name), targetIdx)}

\* CompareIndexes: fetchIndexes, the count test, compareIndexDefinitions.
CompareIndexes(sourceIndexes, targetIndexes, fail) ==
    IF fail # "none" THEN {IndexResult(FALSE, Reason("", ""), TRUE)}
    ELSE IF Len(sourceIndexes) # Len(targetIndexes)
    THEN {IndexResult(FALSE, Reason("count", ""), FALSE)}
    ELSE compareIndexDefinitions(targetIndexes, sourceIndexes)

CallCompareIndexes ==
    /\ call = NoCall
    /\ \E sourceIndexes \in AuditLists, targetIndexes \in AuditLists,
          fail \in CountFaults :
         \E out \in CompareIndexes(sourceIndexes, targetIndexes, fail) :
            call' = [fn |-> "CompareIndexes", sourceIndexes |-> sourceIndexes,
                     targetIndexes |-> targetIndexes, fail |-> fail, out |-> out]
    /\ UNCHANGED <<dumpVars, storeVars, retryVars, dataVars, copyVars, histVars>>

NextAudit == CallCompareIndexes

SpecAudit == Init /\ [][NextAudit]_vars

\* Two key patterns with the same fields and the same direction for each.
SameKeyPattern(s, t) ==
    /\ {s[i][1] : i \in 1..Len(s)} = {t[i][1] : i \in 1..Len(t)}
    /\ \A i \in 1..Len(s), j \in 1..Len(t) :
          s[i][1] = t[j][1] => s[i][2].v = t[j][2].v

\* The reason for which a target index does not match the source indexes,
\* "" if it matches.
Mismatch(sourceIndexes, targetIdx) ==
    IF targetIdx.name \notin {sourceIndexes[i].name : i \in 1..Len(sourceIndexes)}
    THEN "missing"
    ELSE LET sourceIdx == IndexNamed(sourceIndexes, targetIdx.name)
         IN IF ~SameKeyPattern(sourceIdx.key, targetIdx.key) THEN "key"
            ELSE IF sourceIdx.unique # targetIdx.unique THEN "unique"
            ELSE IF sourceIdx.sparse # targetIdx.sparse THEN "sparse"
            ELSE ""

\* C29: CompareIndexes: with different numbers of indexes the result is not
\* equal with a count-mismatch reason; otherwise it is equal if and only if
\* every target index has a source index of the same name with an equal
\* key pattern, the same unique and the same sparse setting, and on
\* inequality the reason is that of the first mismatch.
C29_IndexAudit ==
    (call.fn = "CompareIndexes" /\ call.fail = "none")
       => LET S == call.sourceIndexes
              T == call.targetIndexes
              bad == {i \in 1..Len(T) : Mismatch(S, T[i]) # ""}
          IN IF Len(S) # Len(T)
             THEN call.out = IndexResult(FALSE, Reason("count", ""), FALSE)
             ELSE IF bad = {}
             THEN call.out = IndexResult(TRUE, Reason("", ""), FALSE)
             ELSE LET first == CHOOSE i \in bad : \A j \in bad : i <= j
                  IN call.out = IndexResult(FALSE,
                                    Reason(Mismatch(S, T[first]), T[first].name), FALSE)

(***************************************************************************)
(* Copy and compare in turn (e2e_test.go): the compare command run on the  *)
(* two collections as the copies and the applications have left them.  A   *)
(* document written at time m is stored with the content of that write     *)
(* and with lastModified = m.                                              *)
(***************************************************************************)
DateTime(n) == [t |-> "datetime", v |-> n]

StoredDoc(i, d) ==
    Ext(Ext(Ext(<<>>, "_id", I32(i)), "value", I32(d.m)), "lastModified", DateTime(d.m))

Stored(coll) == [i \in IdsOf(coll) |-> StoredDoc(i, coll[i])]

\* runCompare in detailed mode between two copies.
CompareNow ==
    /\ pc \in {"idle", "done"}
    /\ \E out \in CompareCollectionData(Stored(source), Stored(target), TRUE, "none") :
         call' = [fn |-> "Compare", out |-> out]
    /\ UNCHANGED <<dumpVars, storeVars, retryVars, dataVars, copyVars, histVars>>

NextConverge == Next \/ CompareNow

SpecConverge == Init /\ [][NextConverge]_vars

NoDifferences(out) ==
    /\ ~out.panic
    /\ out.difference = 0
    /\ out.missingInTarget = 0
    /\ out.missingInSource = 0
    /\ out.differentDocuments = 0

\* C30: a detailed Compare that follows a successful incremental Transfer,
\* with no write in between, reports difference = missingInTarget =
\* missingInSource = differentDocuments = 0, the first time and after every
\* later Transfer; a Compare after new documents were inserted into the
\* source reports as missingInTarget the number of source documents the
\* target does not hold.
C30_CopyCompareConverge ==
    [][(call' # call /\ call'.fn = "Compare")
          => /\ (pc = "done" /\ result = "ok" /\ incremental)
                    => NoDifferences(call'.out)
             /\ call'.out.missingInTarget
                    = Cardinality(IdsOf(source) \ IdsOf(target))]_vars

(***************************************************************************)
(* Overlapping runs and the checkpoint they leave, checked under SpecRuns. *)
(***************************************************************************)
\* The step applies to side s the upsert of a run that carries time t:
\* the update of the matched record, or the insert after no match.
Applied(s, t) ==
    \/ /\ syncState[s] # <<>>
       /\ t = now
       /\ upserts' = upserts
       /\ syncState' = [syncState EXCEPT ![s][1] = t]
    \/ \E r \in Runs :
          /\ upserts[r] = [pc |-> "insert", side |-> s, t |-> t]
          /\ upserts'[r] = NoUpsert
          /\ syncState' = [syncState EXCEPT ![s] = Append(@, t)]

\* C31: two incremental runs on one collection are not mutually excluded:
\* each checkpoint upsert is applied atomically, none is rejected, and the
\* lastSyncTime read afterwards is the timestamp of the upsert that was
\* applied last.
C31_LastUpsertWins ==
    [][\A s \in Sides, t \in 0..MaxTime :
          Applied(s, t) => /\ FirstRecord'[s] = t
                           /\ Len(syncState'[s]) = 1]_vars

(***************************************************************************)
(* The sync-state collections with the records of several collections.     *)
(* UpdateOne runs with the filter {databaseName, collectionName}: the      *)
(* record of that key is the only one it sets or inserts.                  *)
(***************************************************************************)
Keys == {"testdb.users", "testdb.orders"}

Stores == [Sides -> [Keys -> 0..MaxTime]]

\* UpdateLastSyncTime(ctx, dbName, collName) on the sync-state collections
\* of the two sides.
KeyedUpdateLastSyncTime(useTarget, store, key, fail, t) ==
    LET u == UpdateLastSyncTime(useTarget, [s \in Sides |-> store[s][key]], fail, t)
    IN [store |-> [s \in Sides |-> [store[s] EXCEPT ![key] = u.meta[s]]],
        ok |-> u.ok, writes |-> u.writes]

CallKeyedUpdateLastSyncTime ==
    /\ call = NoCall
    /\ \E useTarget \in BOOLEAN, store \in Stores, key \in Keys, fail \in Faults,
          t \in 1..MaxTime :
         call' = [fn |-> "KeyedUpdateLastSyncTime", useTarget |-> useTarget,
                  before |-> store, key |-> key, fail |-> fail, t |-> t,
                  out |-> KeyedUpdateLastSyncTime(useTarget, store, key, fail, t)]
    /\ UNCHANGED <<dumpVars, storeVars, retryVars, dataVars, copyVars, histVars>>

NextKeys == CallKeyedUpdateLastSyncTime

SpecKeys == Init /\ [][NextKeys]_vars

Flushed == Len(flushed') = Len(flushed) + 1

\* What holds of the buffer and of the flushes at every step, whichever
\* flush clears the buffer.
BufferBounds ==
    /\ Len(batch') <= batchSize'
    /\ pc' = "flushFull" => Len(batch') = batchSize'
    /\ pc' = "flushRest" => Len(batch') \in 1..batchSize'
    /\ \A k \in 1..Len(flushed') :
          IF k < Len(flushed') THEN Len(flushed'[k]) = batchSize'
          ELSE Len(flushed'[k]) \in 1..batchSize'
    /\ yielded' = <<>> => flushed' = <<>>
    /\ Flushed => flushed' = Append(flushed, batch) /\ batch # <<>>

NoRequest == [op |-> "none"]

\* fn of insertDocuments: InsertMany(batch) with SetOrdered(false).
insertDocuments(b) == [op |-> "InsertMany", ordered |-> FALSE, docs |-> b]

\* upsertDocuments: nil at once when prepareBulkOps returns no model, else
\* fn sends BulkWrite(bulkOps) with SetOrdered(false).
upsertDocuments(b) ==
    IF Len(prepareBulkOps(b)) = 0 THEN NoRequest
    ELSE [op |-> "BulkWrite", ordered |-> FALSE, models |-> prepareBulkOps(b)]

\* The target after the request of one flush was applied in full. A
\* document inserted without _id gets a new ObjectID, outside Ids.
ApplyRequest(coll, req) ==
    IF req.op = "InsertMany" THEN InsertMany(coll, req.docs)
    ELSE IF req.op = "BulkWrite" THEN BulkWrite(coll, req.models)
    ELSE coll

\* The target after an attempt that was cut when the server had applied the
\* first k writes of the request.
ApplyPart(coll, req, k) ==
    IF req.op = "InsertMany" THEN InsertMany(coll, Prefix(req.docs, k))
    ELSE IF req.op = "BulkWrite"
    THEN BulkWrite(coll, Prefix(req.models, IF k < Len(req.models) THEN k
                                            ELSE Len(req.models)))
    ELSE coll

\* The batches of the direct calls: documents with an _id, each _id once,
\* and documents without.
BatchDocs == {[id |-> i, m |-> t] : i \in Ids \cup {0}, t \in 1..MaxTime}

Batches ==
    {b \in UNION {[1..n -> BatchDocs] : n \in BatchSizes} :
       \A j, k \in 1..Len(b) : (j # k /\ hasID(b[j])) => b[j].id # b[k].id}

TargetColls == [Ids -> {Doc(t) : t \in 0..MaxTime}]

CallInsertBatch ==
    /\ call = NoCall
    /\ \E inc \in BOOLEAN, b \in Batches, coll \in TargetColls :
         \E k \in 0..Len(b) :
            LET req == IF insertBatch(inc) = "upsert" THEN upsertDocuments(b)
                       ELSE insertDocuments(b)
            IN call' = [fn |-> "insertBatch", incremental |-> inc, batch |-> b,
                        before |-> coll, request |-> req,
                        after |-> ApplyRequest(coll, req),
                        applied |-> k,
                        again |-> ApplyRequest(ApplyPart(coll, req, k), req)]
    /\ UNCHANGED <<dumpVars, storeVars, retryVars, dataVars, copyVars, histVars>>

NextFlush == CallInsertBatch

SpecFlush == Init /\ [][NextFlush]_vars

\* The documents of the batch that have a primary key, in batch order.
Keyed(b) == SelectSeq(b, hasID)

\* C34: a fresh flush is one unordered InsertMany of the whole batch and
\* never an upsert; an incremental flush is never a plain insert and, for a
\* batch with a keyed document, is one unordered BulkWrite holding exactly
\* one replace-with-upsert model per keyed document, filtered by its key;
\* after it the target document of each such key is the batch document and
\* the documents of the other keys are as before.
C34_FlushModeDispatch ==
    call.fn = "insertBatch" =>
       LET keyed == Keyed(call.batch)
           req == call.request
       IN /\ ~call.incremental =>
                req = [op |-> "InsertMany", ordered |-> FALSE, docs |-> call.batch]
          /\ call.incremental =>
                /\ req.op # "InsertMany"
                /\ keyed # <<>> =>
                      /\ req.op = "BulkWrite"
                      /\ ~req.ordered
                      /\ Len(req.models) = Len(keyed)
                      /\ \A k \in 1..Len(keyed) :
                            /\ req.models[k].filter = keyed[k].id
                            /\ req.models[k].replacement = keyed[k]
                            /\ req.models[k].upsert
                /\ \A i \in Ids :
                      call.after[i] =
                         IF \E k \in 1..Len(keyed) : keyed[k].id = i
                         THEN Doc(keyed[CHOOSE k \in 1..Len(keyed) : keyed[k].id = i].m)
                         ELSE call.before[i]

C34_Witness ==
    /\ call.fn = "insertBatch"
    /\ call.incremental
    /\ Len(call.batch) = 2
    /\ ~hasID(call.batch[1])
    /\ call.batch[2] = [id |-> 1, m |-> 2]
    /\ ~Has(call.before, 1)
    /\ call.before[2] = Doc(1)
    /\ call.after[1] = Doc(2)
    /\ call.after[2] = Doc(1)
    /\ Len(call.request.models) = 1

(***************************************************************************)
(* A fresh flush whose first attempt is cut by a transient fault, checked  *)
(* under Spec.                                                             *)
(***************************************************************************)
\* RetryWithBackoff is about to return from a fresh flush of a batch none of
\* whose documents was in the target when the copy began: fn ran twice, the
\* first InsertMany was cut by a network error, the second met no fault.
RetriedAfterTransient ==
    /\ pc \in {"flushFull", "flushRest"}
    /\ rOp = "insert"
    /\ rPc = "ret"
    /\ \A k \in 1..Len(batch) : ~Has(targetAtStart, batch[k].id)
    /\ Len(fnLog) = 2
    /\ fnLog[1] = NetworkError
    /\ fnLog[2] # NetworkError

\* C36: when an attempt of a fresh flush fails with a transient error,
\* whatever part of the batch it had written, and the next attempt meets no
\* transient fault, the flush returns nil and every document of the batch
\* is in the target.
C36_FreshFlushSurvivesTransientFault ==
    RetriedAfterTransient
       => /\ rRet = RetNil
          /\ \A k \in 1..Len(batch) : target[batch[k].id] = Doc(batch[k].m)

(***************************************************************************)
(* RetryWithBackoff without an attempt to make, checked under Spec: the    *)
(* retry-attempts setting is passed to the flushes as it was given, zero   *)
(* included (a negative number fails the same loop test).                  *)
(***************************************************************************)
\* C37: RetryWithBackoff called with attempts <= 0 never invokes fn and
\* returns the "failed after N attempts" error, so a flush with no attempt
\* configured writes nothing and fails; with attempts >= 1 and a context
\* that is not done fn is invoked at least once before the call returns.
C37_NoAttemptNoInvocation ==
    /\ (rPc \in {"loop", "wait", "ret"} /\ attempts <= 0) => fnLog = <<>>
    /\ (rPc = "ret" /\ attempts <= 0) => rRet = Ret("exhausted", attempts, Nil)
    /\ retryAttempts <= 0 => target = targetAtStart /\ flushed = <<>>
    /\ (pc = "done" /\ retryAttempts <= 0 /\ batch # <<>> /\ result # "decode")
          => result = "exhausted"
    /\ (rPc = "ret" /\ attempts >= 1 /\ ~CtxDone) => Len(fnLog) >= 1

C37_Witness ==
    /\ pc = "done"
    /\ retryAttempts = 0
    /\ result = "exhausted"
    /\ Len(batch) = 2
    /\ target = EmptyColl
    /\ \A i \in Ids : Has(source, i)

(***************************************************************************)
(* The same incremental batch flushed again, checked under SpecFlush: the  *)
(* first time in full (a second run over an unchanged source) or in part   *)
(* (an attempt cut by a transient fault), then in full.  The target        *)
(* collection has one document per _id, which its _id index enforces.      *)
(***************************************************************************)
\* C38: flushing an incremental batch a second time, after a first flush
\* applied in full or in part, leaves the target as one flush of it does,
\* with the same documents and the same number of them.
C38_IncrementalFlushIsIdempotent ==
    (call.fn = "insertBatch" /\ call.incremental)
       => /\ call.again = call.after
          /\ Cardinality(IdsOf(call.again)) = Cardinality(IdsOf(call.after))
          /\ ApplyRequest(call.after, call.request) = call.after

C38_Witness ==
    /\ call.fn = "insertBatch"
    /\ call.incremental
    /\ Len(call.batch) = 2
    /\ call.applied = 1
    /\ hasID(call.batch[1]) /\ hasID(call.batch[2])
    /\ Has(call.before, call.batch[1].id)
    /\ call.before[call.batch[1].id] # Doc(call.batch[1].m)
    /\ ~Has(call.before, call.batch[2].id)
    /\ call.again = call.after
    /\ call.after # call.before

(***************************************************************************)
(* The incremental dump of one collection (cmd/dump): dumpCollection       *)
(* builds the query from the recorded state, runs mongodump, and records   *)
(* the new state.  The applications go on writing to the source and the    *)
(* clock goes on while mongodump runs.  The last-modified values of the    *)
(* documents are dates.                                                    *)
(***************************************************************************)
\* buildIncrementalQuery: no query for a full dump or without a recorded
\* time; else json.Marshal of {field: {"$gt": LastDumpTime}}, in which a
\* time.Time becomes a JSON string (its RFC 3339 text).
buildIncrementalQuery(inc, state) ==
    IF ~inc \/ state.LastDumpTime = 0 THEN NoQuery
    ELSE [empty |-> FALSE, type |-> "string", gt |-> state.LastDumpTime]

\* The documents mongodump --query selects: $gt compares within one type,
\* so a string operand selects no document whose field is a date.
Selects(q, d) == q.empty \/ (q.type = "date" /\ d.m > q.gt)

\* dumpCollection up to executeDumpWithRetry.
dumpCollection ==
    /\ pc = "idle"
    /\ dumpPc = "idle"
    /\ \E inc \in BOOLEAN : dumpQuery' = buildIncrementalQuery(inc, dumpState)
    /\ dumpPc' = "dump"
    /\ UNCHANGED <<dumpState, dumpStart>>
    /\ UNCHANGED <<storeVars, callVars, retryVars, dataVars, copyVars, histVars>>

\* executeDumpWithRetry starts mongodump.
executeDumpWithRetry ==
    /\ dumpPc = "dump"
    /\ dumpPc' = "running"
    /\ dumpStart' = now
    /\ UNCHANGED <<dumpState, dumpQuery>>
    /\ UNCHANGED <<storeVars, callVars, retryVars, dataVars, copyVars, histVars>>

\* mongodump exits: with success, or with an error, after which
\* executeDumpWithRetry tries again or has no attempt left and
\* dumpCollection returns its error.
mongodumpExits ==
    /\ dumpPc = "running"
    /\ dumpPc' \in {"state", "dump", "idle"}
    /\ UNCHANGED <<dumpState, dumpQuery, dumpStart>>
    /\ UNCHANGED <<storeVars, callVars, retryVars, dataVars, copyVars, histVars>>

\* updateCollectionState: CountDocuments, whose error is returned, then
\* the state entry with LastDumpTime = time.Now().
updateCollectionState ==
    /\ dumpPc = "state"
    /\ dumpPc' = "idle"
    /\ \E countFails \in BOOLEAN :
         dumpState' = IF countFails THEN dumpState
                      ELSE [LastDumpTime |-> now,
                            DocumentCount |-> Cardinality(IdsOf(source))]
    /\ UNCHANGED <<dumpQuery, dumpStart>>
    /\ UNCHANGED <<storeVars, callVars, retryVars, dataVars, copyVars, histVars>>

NextDump ==
    \/ dumpCollection
    \/ executeDumpWithRetry
    \/ mongodumpExits
    \/ updateCollectionState
    \/ InsertDoc
    \/ UpdateDoc
    \/ Tick

SpecDump == Init /\ [][NextDump]_vars

\* C39: the LastDumpTime recorded for the collection is never later than
\* the moment the dump it describes began to read, and every document
\* whose last-modified value is later than that moment is selected by the
\* query of the next incremental dump.
C39_DumpLosesNoModification ==
    [][dumpState' # dumpState
          => /\ dumpState'.LastDumpTime <= dumpStart
             /\ \A i \in Ids :
                   (Has(source, i) /\ source[i].m > dumpStart)
                      => Selects(buildIncrementalQuery(TRUE, dumpState'),
                                 source[i])]_vars

(***************************************************************************)
(* bsonEqual as a relation on documents, checked under SpecEqual.          *)
(***************************************************************************)
\* C40: bsonEqual(a, b) and bsonEqual(b, a) have the same outcome, and
\* bsonEqual(a, a) is true, for every two documents a and b, those with a
\* field "modified" or "lastModified" and those whose _id is 2 included.
C40_BsonEqualSymmetricReflexive ==
    call.fn = "bsonEqual"
       => /\ bsonEqual(call.a, call.b) = bsonEqual(call.b, call.a)
          /\ bsonEqual(call.a, call.a) = {"true"}

====
